---- MODULE Spec2Model ----
(***************************************************************************)
(* A model of the gtmcp retrieval layer: BaseClient (scope handling, rate  *)
(* limiting, retry/backoff in blocking and suspending mode), the OAI-PMH   *)
(* harvester SMARTechClient and the course-catalog client OscarClient.     *)
(*                                                                         *)
(* Time is counted in whole seconds.  One client instance is modelled; its *)
(* caller is sequential.                                                   *)
(***************************************************************************)
EXTENDS Integers, Sequences, FiniteSets, TLC

(***************************************************************************)
(* Bounds of the model.                                                    *)
(***************************************************************************)
MaxRetries == 3       \* max_retries ranges over 0..MaxRetries
MaxDelay == 2         \* delay ranges over 0..MaxDelay
MaxClock == 3         \* no new call and no idle tick once the clock passed this

Modes == {"sync", "async"}

\* What one outbound attempt can meet: an HTTP response with a status, or an
\* exception of the HTTP library (a timeout, a connection error, any other).
Statuses == {200, 404, 429, 500, 501, 503}
Http(s) == [kind |-> "response", status |-> s]
Outcomes ==
    {Http(s) : s \in Statuses}
        \cup [kind : {"Timeout", "ConnectionError", "Other"}, status : {0}]
NoOutcome == [kind |-> "none", status |-> 0]

\* How long the exchange with the upstream may take.
Elapse == {0, 1}

VARIABLES
    max_retries,         \* BaseClient.max_retries
    delay,               \* BaseClient.delay
    session,             \* [mode -> "None" | "Session"]: _session, _async_session
    unclosed,            \* [mode -> number of sessions created and not closed]
    depth,               \* [mode -> 1 inside a with-block of the caller, else 0]
    last_exit,           \* how the latest with-block was left
    now,                 \* the clock datetime.now().timestamp() reads
    last_request_time,   \* BaseClient._last_request_time
    readings,            \* the last two values written to _last_request_time
    sent_at,             \* clock at the latest outbound request
    pc,                  \* "idle" | "loop": position of the caller in _make_request
    mode,                \* mode of the current or latest call
    attempt,             \* the loop variable of the retry loop
    sent,                \* outbound attempts of the current or latest call
    outcome,             \* what the latest attempt of that call met
    only500,             \* every earlier attempt of that call met an HTTP 500
    backoffs,            \* the backoff sleeps of the current or latest call
    result,              \* how the current or latest call ended
    tasks,               \* the coroutines inside _make_async_request
    repo,                \* the records the upstream repository holds
    op,                  \* the latest public operation and its arguments
    before,              \* _last_request_time when that operation was called
    wire,                \* the requests that operation handed to _make_request
    reply                \* what that operation returned or raised

vars ==
    <<max_retries, delay, session, unclosed, depth, last_exit, now,
      last_request_time, readings, sent_at, pc, mode, attempt, sent,
      outcome, only500, backoffs, result, tasks, repo, op, before, wire, reply>>

config == <<max_retries, delay>>
scope == <<session, unclosed, depth, last_exit>>
clock == <<now, last_request_time, readings, sent_at>>
call == <<pc, mode, attempt, sent, outcome, only500, backoffs, result, tasks>>
client == <<repo, op, before, wire, reply>>

(***************************************************************************)
(* BaseClient                                                              *)
(***************************************************************************)

\* The coroutines that share the instance, and a coroutine that is not
\* inside _make_async_request.
Coroutines == {"A", "B"}
Outside == [pc |-> "outside", wake |-> 0]

NoOp == [name |-> "none"]
NoReply ==
    [kind |-> "none", error |-> "none", items |-> <<>>, resumptionToken |-> 0,
     count |-> 0]

\* __init__: no session, the pacing clock at 0.0.
InitClient ==
    /\ session = [m \in Modes |-> "None"]
    /\ unclosed = [m \in Modes |-> 0]
    /\ depth = [m \in Modes |-> 0]
    /\ last_exit = "none"
    /\ now = 0
    /\ last_request_time = 0
    /\ readings = <<>>
    /\ sent_at = 0
    /\ pc = "idle"
    /\ mode = "sync"
    /\ attempt = 0
    /\ sent = 0
    /\ outcome = NoOutcome
    /\ only500 = TRUE
    /\ backoffs = <<>>
    /\ result = "none"
    /\ tasks = [c \in Coroutines |-> Outside]
    /\ op = NoOp
    /\ before = 0
    /\ wire = <<>>
    /\ reply = NoReply

Init ==
    /\ InitClient
    /\ max_retries \in 0..MaxRetries
    /\ delay \in 0..MaxDelay
    /\ repo = <<>>

\* Time passes while the caller does something else.
Tick ==
    /\ pc = "idle"
    /\ now < MaxClock
    /\ now' = now + 1
    /\ UNCHANGED <<config, scope, last_request_time, readings, sent_at, call, client>>

\* __enter__ / __aenter__: a new session is created and held.  The caller
\* does not nest with-blocks of one mode on one instance.
Enter(m) ==
    /\ pc = "idle"
    /\ depth[m] = 0
    /\ session' = [session EXCEPT ![m] = "Session"]
    /\ unclosed' = [unclosed EXCEPT ![m] = @ + 1]
    /\ depth' = [depth EXCEPT ![m] = @ + 1]
    /\ UNCHANGED <<config, last_exit, clock, call, client>>

\* __exit__ / __aexit__, on the normal and on the exceptional path: the
\* exception details are ignored; a held session is closed and dropped.
ExitNoClear(m, path) ==
    /\ pc = "idle"
    /\ depth[m] > 0
    /\ depth' = [depth EXCEPT ![m] = @ - 1]
    /\ last_exit' = path
    /\ UNCHANGED <<config, session, unclosed, clock, call, client>>

Exit(m, path) ==
    /\ pc = "idle"
    /\ depth[m] > 0
    /\ IF session[m] # "None"
         THEN /\ unclosed' = [unclosed EXCEPT ![m] = @ - 1]
              /\ session' = [session EXCEPT ![m] = "None"]
         ELSE UNCHANGED <<session, unclosed>>
    /\ depth' = [depth EXCEPT ![m] = @ - 1]
    /\ last_exit' = path
    /\ UNCHANGED <<config, clock, call, client>>

\* _enforce_rate_limit at clock reading t: the time
\* slept and the value written to _last_request_time, which is the clock read
\* again after the sleep (a sleep lasts at least the time asked for; the
\* model takes exactly that time, the least spacing there can be).
EnforceRateLimitStale(t, last) ==
    LET time_since_last == t - last
        sleep_time == IF time_since_last < delay THEN delay - time_since_last ELSE 0
    IN  [sleep_time |-> sleep_time, last_request_time |-> t]

EnforceRateLimitOnSleep(t, last) ==
    LET time_since_last == t - last
        sleep_time == IF time_since_last < delay THEN delay - time_since_last ELSE 0
    IN  [sleep_time |-> sleep_time,
         last_request_time |-> IF sleep_time > 0 THEN t + sleep_time ELSE last]

EnforceRateLimit(t, last) ==
    LET time_since_last == t - last
        sleep_time == IF time_since_last < delay THEN delay - time_since_last ELSE 0
    IN  [sleep_time |-> sleep_time, last_request_time |-> t + sleep_time]

\* _aenforce_rate_limit: the same, the sleep suspending the coroutine.
AEnforceRateLimit(t, last) ==
    LET time_since_last == t - last
        sleep_time == IF time_since_last < delay THEN delay - time_since_last ELSE 0
    IN  [sleep_time |-> sleep_time, last_request_time |-> t + sleep_time]

\* The handlers of one loop iteration that may retry: raise err on the last
\* attempt, sleep 2 ** attempt and go round otherwise.
RetryOrRaiseFlat(att, err) ==
    IF att = max_retries - 1
      THEN [act |-> "raise", error |-> err, backoff |-> 0]
      ELSE [act |-> "retry", error |-> "none", backoff |-> 1]

RetryOrRaiseOneMore(att, err) ==
    IF att = max_retries
      THEN [act |-> "raise", error |-> err, backoff |-> 0]
      ELSE [act |-> "retry", error |-> "none", backoff |-> 2 ^ att]

RetryOrRaise(att, err) ==
    IF att = max_retries - 1
      THEN [act |-> "raise", error |-> err, backoff |-> 0]
      ELSE [act |-> "retry", error |-> "none", backoff |-> 2 ^ att]

\* What _make_request does with the outcome o of attempt att.  The
\* RateLimitError raised for a 429 inside the try block is not one of the
\* requests exceptions, so the trailing `except Exception` handles it.
RetryStatuses == {500, 502, 503, 504}

ClassifyRetryAll(o, att) ==
    IF o.kind = "response"
      THEN IF o.status = 429 THEN RetryOrRaise(att, "ClientError")
           ELSE IF o.status < 400
             THEN [act |-> "return", error |-> "none", backoff |-> 0]
           ELSE RetryOrRaise(att, "NetworkError")
    ELSE IF o.kind \in {"Timeout", "ConnectionError"}
      THEN RetryOrRaise(att, "NetworkError")
    ELSE RetryOrRaise(att, "ClientError")

Classify(o, att) ==
    IF o.kind = "response"
      THEN IF o.status = 429 THEN RetryOrRaise(att, "ClientError")
           ELSE IF o.status < 400
             THEN [act |-> "return", error |-> "none", backoff |-> 0]
           ELSE IF o.status \in RetryStatuses THEN RetryOrRaise(att, "NetworkError")
           ELSE [act |-> "raise", error |-> "NetworkError", backoff |-> 0]
    ELSE IF o.kind \in {"Timeout", "ConnectionError"}
      THEN RetryOrRaise(att, "NetworkError")
    ELSE RetryOrRaise(att, "ClientError")

\* _make_async_request with the 429 surfacing as RateLimitError at once.
AClassifyRateLimit(o, att) ==
    IF o.kind = "response" /\ o.status = 429
      THEN [act |-> "raise", error |-> "RateLimitError", backoff |-> 0]
      ELSE Classify(o, att)

\* The same for _make_async_request.
AClassify(o, att) ==
    IF o.kind = "response"
      THEN IF o.status = 429 THEN RetryOrRaise(att, "ClientError")
           ELSE IF o.status < 400
             THEN [act |-> "return", error |-> "none", backoff |-> 0]
           ELSE IF o.status \in RetryStatuses THEN RetryOrRaise(att, "NetworkError")
           ELSE [act |-> "raise", error |-> "NetworkError", backoff |-> 0]
    ELSE IF o.kind \in {"Timeout", "ConnectionError"}
      THEN RetryOrRaise(att, "NetworkError")
    ELSE RetryOrRaise(att, "ClientError")

\* _make_request / _make_async_request up to the loop: without a session of
\* that mode the call raises ClientError at once.
StartRequest(m) ==
    /\ pc = "idle"
    /\ now <= MaxClock
    /\ mode' = m
    /\ attempt' = 0
    /\ sent' = 0
    /\ outcome' = NoOutcome
    /\ only500' = TRUE
    /\ backoffs' = <<>>
    /\ IF session[m] = "None"
         THEN pc' = "idle" /\ result' = "ClientError"
         ELSE pc' = "loop" /\ result' = "pending"
    /\ UNCHANGED <<config, scope, clock, client, tasks>>

\* The loop falls through (range(max_retries) is used up): the function
\* returns None.
LoopEnd ==
    /\ pc = "loop"
    /\ attempt >= max_retries
    /\ pc' = "idle"
    /\ result' = "None"
    /\ UNCHANGED <<config, scope, clock, client, mode, attempt, sent, outcome, only500,
                   backoffs, tasks>>

\* One iteration of the retry loop: pace, send, classify, back off.
LoopStep(o, took) ==
    /\ pc = "loop"
    /\ attempt < max_retries
    /\ LET rl == IF mode = "sync" THEN EnforceRateLimit(now, last_request_time)
                 ELSE AEnforceRateLimit(now, last_request_time)
           c == IF mode = "sync" THEN Classify(o, attempt) ELSE AClassify(o, attempt)
       IN  /\ last_request_time' = rl.last_request_time
           /\ readings' = <<rl.last_request_time>>
                  \o (IF readings = <<>> THEN <<>> ELSE <<readings[1]>>)
           /\ sent_at' = now + rl.sleep_time
           /\ sent' = sent + 1
           /\ outcome' = o
           /\ only500' = (sent = 0 \/ (only500 /\ outcome = Http(500)))
           /\ now' = now + rl.sleep_time + took + c.backoff
           /\ IF c.act = "retry"
                THEN /\ backoffs' = Append(backoffs, c.backoff)
                     /\ attempt' = attempt + 1
                     /\ UNCHANGED <<pc, result>>
                ELSE /\ pc' = "idle"
                     /\ result' = IF c.act = "return" THEN "response" ELSE c.error
                     /\ UNCHANGED <<backoffs, attempt>>
    /\ UNCHANGED <<config, scope, mode, client, tasks>>

Next ==
    \/ Tick
    \/ \E m \in Modes : Enter(m)
    \/ \E m \in Modes, path \in {"normal", "exception"} : Exit(m, path)
    \/ \E m \in Modes : StartRequest(m)
    \/ LoopEnd
    \/ \E o \in Outcomes, took \in Elapse : LoopStep(o, took)

Spec == Init /\ [][Next]_vars

(***************************************************************************)
(* A whole call of _make_request, as the public operations of the clients  *)
(* use it.                                                                 *)
(***************************************************************************)

\* An upstream that answers 500 to the first k attempts of a call and o to
\* every later one.
ClientOutcomes == {Http(200), Http(404), Http(429), Http(500)}
Upstream(k, o) == [i \in 1..(MaxRetries + 1) |-> IF i <= k THEN Http(500) ELSE o]

\* The retry loop of _make_request from attempt att on, at clock reading t.
RECURSIVE RunLoop(_, _, _, _)
RunLoop(att, t, last, outs) ==
    IF att >= max_retries
      THEN [result |-> "None", sent |-> att, now |-> t, last_request_time |-> last]
      ELSE LET rl == EnforceRateLimit(t, last)
               c == Classify(outs[att + 1], att)
           IN  IF c.act = "retry"
                 THEN RunLoop(att + 1, t + rl.sleep_time + c.backoff,
                              rl.last_request_time, outs)
                 ELSE [result |-> IF c.act = "return" THEN "response" ELSE c.error,
                       sent |-> att + 1,
                       now |-> t + rl.sleep_time,
                       last_request_time |-> rl.last_request_time]

MakeRequest(t, last, outs) ==
    IF session["sync"] = "None"
      THEN [result |-> "ClientError", sent |-> 0, now |-> t, last_request_time |-> last]
      ELSE RunLoop(0, t, last, outs)

\* What an operation leaves behind.
Raised(err) ==
    [kind |-> "error", error |-> err, items |-> <<>>, resumptionToken |-> 0, count |-> 0]
Returned(items, token) ==
    [kind |-> "ok", error |-> "none", items |-> items, resumptionToken |-> token,
     count |-> Len(items)]

(***************************************************************************)
(* Coroutines that call _make_async_request on one instance.  The event    *)
(* loop runs one coroutine at a time and changes over at an await only:    *)
(* what a coroutine does between two awaits is one step.                   *)
(***************************************************************************)

\* A request goes out at clock reading t, _last_request_time just written.
Sends(c, t) ==
    /\ last_request_time' = t
    /\ readings' = <<t>> \o (IF readings = <<>> THEN <<>> ELSE <<readings[1]>>)
    /\ sent_at' = t
    /\ tasks' = [tasks EXCEPT ![c] = [pc |-> "request", wake |-> 0]]

\* _make_async_request up to its first await, in an open async scope:
\* _aenforce_rate_limit reads the clock and _last_request_time and either
\* awaits asyncio.sleep(sleep_time) or writes _last_request_time at once,
\* after which the request is issued.
ABegin(c) ==
    /\ tasks[c].pc = "outside"
    /\ session["async"] # "None"
    /\ max_retries > 0
    /\ now <= MaxClock
    /\ LET time_since_last == now - last_request_time
       IN  IF time_since_last < delay
             THEN /\ tasks' = [tasks EXCEPT ![c] = [pc |-> "sleep",
                                                    wake |-> now + (delay - time_since_last)]]
                  /\ UNCHANGED <<last_request_time, readings, sent_at>>
             ELSE Sends(c, now)
    /\ UNCHANGED <<config, scope, now, client, pc, mode, attempt, sent, outcome, only500,
                   backoffs, result>>

\* asyncio.sleep is over: _last_request_time is written with the clock
\* reading of now, whatever the other coroutines wrote meanwhile, and the
\* request is issued.
AWake(c) ==
    /\ tasks[c].pc = "sleep"
    /\ now >= tasks[c].wake
    /\ Sends(c, now)
    /\ UNCHANGED <<config, scope, now, client, pc, mode, attempt, sent, outcome, only500,
                   backoffs, result>>

\* The response arrives with status 200 and the call returns.
AReturn(c) ==
    /\ tasks[c].pc = "request"
    /\ tasks' = [tasks EXCEPT ![c] = Outside]
    /\ UNCHANGED <<config, scope, clock, client, pc, mode, attempt, sent, outcome, only500,
                   backoffs, result>>

InitRace ==
    /\ InitClient
    /\ max_retries = 1
    /\ delay \in 1..MaxDelay
    /\ repo = <<>>

NextRace ==
    \/ Tick
    \/ Enter("async")
    \/ \E c \in Coroutines : ABegin(c)
    \/ \E c \in Coroutines : AWake(c)
    \/ \E c \in Coroutines : AReturn(c)

SpecRace == InitRace /\ [][NextRace]_vars

(***************************************************************************)
(* The connection tests of OscarClient and SMARTechClient                  *)
(***************************************************************************)

\* What a connection test leaves behind: whether a request went out, and
\* the boolean it returned.
Tested(name, at, went_out, connected) ==
    [name |-> name, at |-> at, sent |-> went_out, connected |-> connected]

\* test_connection: one GET through _make_request; the test succeeds when
\* the text of the response holds the marker of the upstream, and every
\* exception makes it return False.
TestConnection(o, marker) ==
    /\ pc = "idle"
    /\ now <= MaxClock
    /\ \E r \in {MakeRequest(now, last_request_time, Upstream(0, o))} :
           /\ op' = Tested("test_connection", now, r.sent > 0,
                           r.result = "response" /\ marker)
           /\ before' = last_request_time
           /\ wire' = <<[target |-> "connection", names |-> {}, token |-> 0,
                         sent |-> r.sent, result |-> r.result]>>
           /\ now' = r.now
           /\ last_request_time' = r.last_request_time
           /\ sent_at' = IF r.sent > 0 THEN r.now ELSE sent_at
           /\ reply' = NoReply
    /\ UNCHANGED <<config, scope, readings, call, repo>>

\* atest_connection: self._async_session.get(...) is called on the session
\* itself, neither through _make_async_request nor through
\* _aenforce_rate_limit; outside an async scope the attribute access on
\* None raises, which makes the test return False.  The status of the
\* response is not looked at.
ATestConnection(o, marker, took) ==
    /\ pc = "idle"
    /\ now <= MaxClock
    /\ LET went_out == session["async"] # "None"
       IN  /\ op' = Tested("atest_connection", now, went_out,
                           went_out /\ o.kind = "response" /\ marker)
           /\ before' = last_request_time
           /\ wire' = <<[target |-> "connection", names |-> {}, token |-> 0,
                         sent |-> IF went_out THEN 1 ELSE 0,
                         result |-> IF ~went_out THEN "AttributeError"
                                    ELSE IF o.kind = "response" THEN "response"
                                    ELSE o.kind]>>
           /\ now' = IF went_out THEN now + took ELSE now
           /\ sent_at' = IF went_out THEN now ELSE sent_at
           /\ reply' = NoReply
    /\ UNCHANGED <<config, scope, last_request_time, readings, call, repo>>

\* An instance built with max_retries = 1 and a delay, its connection tests
\* and its requests in both modes.
InitConnection ==
    /\ InitClient
    /\ max_retries = 1
    /\ delay \in 1..MaxDelay
    /\ repo = <<>>

NextConnection ==
    \/ Tick
    \/ \E m \in Modes : Enter(m)
    \/ \E m \in Modes : StartRequest(m)
    \/ \E o \in {Http(200), Http(500)}, took \in Elapse : LoopStep(o, took)
    \/ \E o \in {Http(200), Http(500)}, marker \in BOOLEAN : TestConnection(o, marker)
    \/ \E o \in {Http(200), [kind |-> "Timeout", status |-> 0]}, marker \in BOOLEAN,
          took \in Elapse :
           ATestConnection(o, marker, took)

SpecConnection == InitConnection /\ [][NextConnection]_vars

(***************************************************************************)
(* SMARTechClient                                                          *)
(***************************************************************************)
MaxRecords == 3       \* the repository holds at most this many records
PageSize == 2         \* records the upstream puts on one page

Min(a, b) == IF a < b THEN a ELSE b

\* The records of the repository: the words of title and abstract, and the
\* subjects.  The identifier of a record is its position.
RecordKinds ==
    {[text |-> {"ai"}, subjects |-> {"cs"}], [text |-> {}, subjects |-> {}]}
Repositories == UNION {[1..n -> RecordKinds] : n \in 0..MaxRecords}
UpstreamSets == <<"com_1", "com_2", "com_3">>

\* The page the upstream serves for a resumption token (0: the first page).
\* A token is the offset of the page; a token that points nowhere is answered
\* by an OAI-PMH error, which carries no list element.
Page(list, token) ==
    IF token > 0 /\ token >= Len(list)
      THEN [found |-> FALSE, ids |-> <<>>, token |-> 0]
      ELSE [found |-> TRUE,
            ids |-> [i \in 1..(Min(token + PageSize, Len(list)) - token) |-> token + i],
            token |-> IF token + PageSize < Len(list) THEN token + PageSize ELSE 0]

\* _matches_criteria (a keyword or subject is contained in a text when it is
\* one of its words).
MatchesCriteria(paper, keywords, subject_areas) ==
    IF keywords = {} /\ subject_areas = {} THEN TRUE
    ELSE /\ keywords # {} => \E w \in keywords : w \in paper.text \cup paper.subjects
         /\ subject_areas # {} => \E a \in subject_areas : a \in paper.subjects

\* The loop of search_records over the records of a page, from the i-th on.
RECURSIVE CollectPapersNoCap(_, _, _, _, _, _)
CollectPapersNoCap(ids, i, papers, keywords, subject_areas, max_records) ==
    IF i > Len(ids) THEN papers
    ELSE LET kept == IF MatchesCriteria(repo[ids[i]], keywords, subject_areas)
                       THEN Append(papers, ids[i]) ELSE papers
         IN  CollectPapersNoCap(ids, i + 1, kept, keywords, subject_areas, max_records)

RECURSIVE CollectPapers(_, _, _, _, _, _)
CollectPapers(ids, i, papers, keywords, subject_areas, max_records) ==
    IF i > Len(ids) THEN papers
    ELSE LET kept == IF MatchesCriteria(repo[ids[i]], keywords, subject_areas)
                       THEN Append(papers, ids[i]) ELSE papers
         IN  IF Len(kept) >= max_records THEN kept
             ELSE CollectPapers(ids, i + 1, kept, keywords, subject_areas, max_records)

\* The query parameters search_records sends.
SearchParams(date_from, date_until, set_spec, resumption_token) ==
    {"verb", "metadataPrefix"}
        \cup (IF resumption_token # 0 THEN {"resumptionToken"}
              ELSE (IF date_from THEN {"from"} ELSE {})
                       \cup (IF date_until THEN {"until"} ELSE {})
                       \cup (IF set_spec THEN {"set"} ELSE {}))

\* The query parameters list_sets sends.
ListSetsParams(resumption_token) ==
    {"verb"} \cup (IF resumption_token # 0 THEN {"resumptionToken"} ELSE {})

Request(target, names, token, r) ==
    [target |-> target, names |-> names, token |-> token, sent |-> r.sent,
     result |-> r.result]

\* A client built with max_retries = 1 and delay = 0: its calls take no time.
InitHarvest ==
    /\ InitClient
    /\ max_retries = 1
    /\ delay = 0
    /\ repo \in Repositories

\* The caller of search_records: whether this call goes on with the harvest
\* the calls before it began without a token, with the token of the latest
\* reply and the same filters and cap, and the papers the harvest has
\* handed to the caller so far.
Follows(keywords, subject_areas, max_records, resumption_token) ==
    \/ resumption_token = 0
    \/ /\ op.name = "search_records"
       /\ op.followed
       /\ reply.kind = "ok"
       /\ resumption_token = reply.resumptionToken
       /\ op.keywords = keywords
       /\ op.subject_areas = subject_areas
       /\ op.max_records = max_records

Received(keywords, subject_areas, max_records, resumption_token, rep) ==
    IF ~Follows(keywords, subject_areas, max_records, resumption_token) THEN <<>>
    ELSE IF resumption_token = 0 THEN rep.items
    ELSE op.received \o rep.items

\* search_records: one ListRecords request; every failure is re-raised as
\* DataParsingError.
SearchRecords(keywords, subject_areas, filtered, resumption_token, max_records, k, o) ==
    /\ pc = "idle"
    /\ now <= MaxClock
    /\ \E r \in {MakeRequest(now, last_request_time, Upstream(k, o))},
          pg \in {Page(repo, resumption_token)} :
         \E rep \in {IF r.result # "response" \/ ~pg.found
                       THEN Raised("DataParsingError")
                       ELSE Returned(CollectPapers(pg.ids, 1, <<>>, keywords,
                                                   subject_areas, max_records),
                                     pg.token)} :
           /\ op' = [name |-> "search_records", keywords |-> keywords,
                     subject_areas |-> subject_areas, max_records |-> max_records,
                     followed |-> Follows(keywords, subject_areas, max_records,
                                          resumption_token),
                     received |-> Received(keywords, subject_areas, max_records,
                                           resumption_token, rep)]
           /\ before' = last_request_time
           /\ wire' = <<Request("ListRecords",
                                SearchParams(filtered, filtered, filtered, resumption_token),
                                resumption_token, r)>>
           /\ now' = r.now
           /\ last_request_time' = r.last_request_time
           /\ sent' = r.sent
           /\ result' = r.result
           /\ reply' = rep
    /\ UNCHANGED <<config, scope, readings, sent_at, pc, mode, attempt, outcome, only500,
                   backoffs, tasks, repo>>

\* list_sets: one ListSets request.
ListSets(resumption_token, k, o) ==
    /\ pc = "idle"
    /\ now <= MaxClock
    /\ \E r \in {MakeRequest(now, last_request_time, Upstream(k, o))},
          pg \in {Page(UpstreamSets, resumption_token)} :
           /\ op' = [name |-> "list_sets"]
           /\ before' = last_request_time
           /\ wire' = <<Request("ListSets", ListSetsParams(resumption_token),
                                resumption_token, r)>>
           /\ now' = r.now
           /\ last_request_time' = r.last_request_time
           /\ sent' = r.sent
           /\ result' = r.result
           /\ reply' = IF r.result # "response" \/ ~pg.found
                         THEN Raised("DataParsingError")
                         ELSE Returned(pg.ids, pg.token)
    /\ UNCHANGED <<config, scope, readings, sent_at, pc, mode, attempt, outcome, only500,
                   backoffs, tasks, repo>>

\* The caller resumes a harvest only with a token the latest reply carried.
\* get_repository_info: one Identify request; the response must hold the
\* Identify element (found).
GetRepositoryInfo(found, k, o) ==
    /\ pc = "idle"
    /\ now <= MaxClock
    /\ \E r \in {MakeRequest(now, last_request_time, Upstream(k, o))} :
           /\ op' = [name |-> "get_repository_info"]
           /\ before' = last_request_time
           /\ wire' = <<Request("Identify", {"verb"}, 0, r)>>
           /\ now' = r.now
           /\ last_request_time' = r.last_request_time
           /\ sent' = r.sent
           /\ result' = r.result
           /\ reply' = IF r.result # "response" \/ ~found
                         THEN Raised("DataParsingError")
                         ELSE Returned(<<>>, 0)
    /\ UNCHANGED <<config, scope, readings, sent_at, pc, mode, attempt, outcome, only500,
                   backoffs, tasks, repo>>

\* get_record_by_identifier: one GetRecord request; the response holds a
\* record element when the repository holds the identifier.
GetRecordByIdentifier(identifier, k, o) ==
    /\ pc = "idle"
    /\ now <= MaxClock
    /\ \E r \in {MakeRequest(now, last_request_time, Upstream(k, o))} :
           /\ op' = [name |-> "get_record_by_identifier", identifier |-> identifier]
           /\ before' = last_request_time
           /\ wire' = <<Request("GetRecord", {"verb", "identifier", "metadataPrefix"}, 0, r)>>
           /\ now' = r.now
           /\ last_request_time' = r.last_request_time
           /\ sent' = r.sent
           /\ result' = r.result
           /\ reply' = IF r.result # "response" \/ identifier \notin 1..Len(repo)
                         THEN Raised("DataParsingError")
                         ELSE Returned(<<identifier>>, 0)
    /\ UNCHANGED <<config, scope, readings, sent_at, pc, mode, attempt, outcome, only500,
                   backoffs, tasks, repo>>

NextHarvest ==
    \/ Enter("sync")
    \/ Exit("sync", "normal")
    \/ \E keywords \in {{}, {"ai"}}, filtered \in BOOLEAN,
          resumption_token \in {0, reply.resumptionToken},
          max_records \in 0..MaxRecords, o \in ClientOutcomes :
           SearchRecords(keywords, {}, filtered, resumption_token, max_records, 0, o)
    \/ \E resumption_token \in {0, reply.resumptionToken}, o \in ClientOutcomes :
           ListSets(resumption_token, 0, o)
    \/ \E found \in BOOLEAN, o \in ClientOutcomes : GetRepositoryInfo(found, 0, o)
    \/ \E identifier \in 1..MaxRecords, o \in ClientOutcomes :
           GetRecordByIdentifier(identifier, 0, o)

SpecHarvest == InitHarvest /\ [][NextHarvest]_vars

(***************************************************************************)
(* SMARTechClient.find_faculty_research                                    *)
(***************************************************************************)
MaxPapers == 11       \* papers one author has in the repository

\* An author string is the sequence of its pieces: words, "," , " ", "(",
\* ")" and the names of the institute, each one piece.
SmithJohn == <<"Smith", ",", " ", "John">>
SmithJ == <<"Smith", ",", " ", "J.">>
Crowd(i) == <<"c", ToString(i)>>

\* The ways an affiliation is written after a name.
Affiliations ==
    <<  <<>>,
        <<" ", "(", "Georgia Tech", ")">>,
        <<",", " ", "Georgia Institute of Technology">>,
        <<",", "georgia tech">>,
        <<" ", "(", "GT", ")", ",", " ", "GEORGIA INSTITUTE OF TECHNOLOGY", " ">>  >>

Author(name, k) == name \o Affiliations[k]

\* re.IGNORECASE: the pieces are compared in lower case.
IgnoreCase(piece) ==
    CASE piece \in {"Georgia Tech", "georgia tech"} -> "georgia tech"
      [] piece \in {"Georgia Institute of Technology", "GEORGIA INSTITUTE OF TECHNOLOGY"}
            -> "georgia institute of technology"
      [] OTHER -> piece

\* re.sub(r'\(.*?\)', '', cleaned): every "(" with a ")" after it goes, with
\* all up to the first such ")".
RECURSIVE SubParenthetical(_)
SubParenthetical(cleaned) ==
    IF cleaned = <<>> THEN <<>>
    ELSE IF Head(cleaned) = "(" /\ \E j \in 2..Len(cleaned) : cleaned[j] = ")"
    THEN LET close == CHOOSE j \in 2..Len(cleaned) :
                        /\ cleaned[j] = ")"
                        /\ \A k \in 2..(j - 1) : cleaned[k] # ")"
         IN  SubParenthetical(SubSeq(cleaned, close + 1, Len(cleaned)))
    ELSE <<Head(cleaned)>> \o SubParenthetical(Tail(cleaned))

\* The pattern r',\s*<name>.*' matches at position i.
MatchesAffiliation(cleaned, i, name) ==
    /\ cleaned[i] = ","
    /\ \E j \in (i + 1)..Len(cleaned) :
         /\ IgnoreCase(cleaned[j]) = name
         /\ \A k \in (i + 1)..(j - 1) : cleaned[k] = " "

\* re.sub(r',\s*<name>.*', '', cleaned): all from the leftmost match on goes.
SubAffiliation(cleaned, name) ==
    IF \E i \in 1..Len(cleaned) : MatchesAffiliation(cleaned, i, name)
    THEN LET first == CHOOSE i \in 1..Len(cleaned) :
                        /\ MatchesAffiliation(cleaned, i, name)
                        /\ \A k \in 1..(i - 1) : ~MatchesAffiliation(cleaned, k, name)
         IN  SubSeq(cleaned, 1, first - 1)
    ELSE cleaned

\* cleaned.strip()
RECURSIVE StripName(_)
StripName(cleaned) ==
    IF cleaned = <<>> THEN <<>>
    ELSE IF Head(cleaned) = " " THEN StripName(Tail(cleaned))
    ELSE IF cleaned[Len(cleaned)] = " " THEN StripName(SubSeq(cleaned, 1, Len(cleaned) - 1))
    ELSE cleaned

CleanAuthorNameNoStrip(author) ==
    SubAffiliation(SubAffiliation(SubParenthetical(author),
                                  "georgia institute of technology"),
                   "georgia tech")

CleanAuthorName(author) ==
    StripName(SubAffiliation(SubAffiliation(SubParenthetical(author),
                                            "georgia institute of technology"),
                             "georgia tech"))

\* A record of the repository with its creators and its date.
Paper(authors, date) ==
    [text |-> {"ai"}, subjects |-> {"cs"}, authors |-> authors, date |-> date]

\* Repositories for the clustering: crowd authors with one paper each, then
\* na papers of "Smith, John" and nb papers of "Smith, J.", the affiliation
\* written in a different way from paper to paper; the dates rise or fall
\* along the repository.
FacultyRepository(crowd, na, nb, rising) ==
    LET n == crowd + na + nb
    IN  [i \in 1..n |->
           Paper(IF i <= crowd THEN <<Author(Crowd(i), 1)>>
                 ELSE IF i <= crowd + na
                 THEN <<Author(SmithJohn, 1 + ((i - crowd - 1) % Len(Affiliations)))>>
                 ELSE <<Author(SmithJ, 1 + ((i - crowd - na - 1) % 2))>>,
                 IF rising THEN i ELSE n + 1 - i)]

FacultyRepositories ==
    {FacultyRepository(crowd, na, nb, rising) :
        crowd \in {0, 20}, na \in 0..MaxPapers, nb \in {0, 2, MaxPapers},
        rising \in BOOLEAN}

\* An upstream that serves all its records on the first page.
WholePage(list) == [found |-> TRUE, ids |-> [i \in 1..Len(list) |-> i], token |-> 0]

\* The keys of faculty_papers in the order of their insertion, after the
\* papers from the i-th on are grouped.
RECURSIVE AuthorKeys(_, _, _)
AuthorKeys(papers, i, keys) ==
    IF i > Len(papers) THEN keys
    ELSE LET authors == repo[papers[i]].authors
             new == SelectSeq([j \in 1..Len(authors) |-> CleanAuthorName(authors[j])],
                              LAMBDA a : \A k \in 1..Len(keys) : keys[k] # a)
         IN  AuthorKeys(papers, i + 1, keys \o new)

\* faculty_papers[author]: the papers appended under the key, in harvest
\* order.
PapersOf(papers, author) ==
    SelectSeq(papers,
              LAMBDA id : \E j \in 1..Len(repo[id].authors) :
                            CleanAuthorName(repo[id].authors[j]) = author)

\* papers[-10:]
LastTen(papers) ==
    IF Len(papers) <= 10 THEN papers ELSE SubSeq(papers, Len(papers) - 9, Len(papers))

Profile(papers, author) ==
    [name |-> author,
     research_interests |-> UNION {repo[id].subjects : id \in
                                     {PapersOf(papers, author)[i] :
                                        i \in 1..Len(PapersOf(papers, author))}},
     recent_publications |-> LastTen(PapersOf(papers, author))]

\* profiles.sort(key=lambda p: len(p.recent_publications), reverse=True): a
\* stable sort, the profiles of one key staying in their order.
RECURSIVE SortByRecent(_, _)
SortByRecent(profiles, key) ==
    IF key < 0 THEN <<>>
    ELSE SelectSeq(profiles, LAMBDA p : Len(p.recent_publications) = key)
           \o SortByRecent(profiles, key - 1)

\* profiles[:20]
FirstTwenty(profiles) == SubSeq(profiles, 1, Min(20, Len(profiles)))

Profiles(papers) ==
    LET keys == AuthorKeys(papers, 1, <<>>)
    IN  FirstTwenty(SortByRecent([i \in 1..Len(keys) |-> Profile(papers, keys[i])], 10))

InitFaculty ==
    /\ InitClient
    /\ max_retries = 1
    /\ delay = 0
    /\ repo \in FacultyRepositories

\* find_faculty_research: search_records(keywords=[area], max_records=500),
\* one request, then the grouping; every failure is re-raised as
\* DataParsingError.
FindFacultyResearch(area, o) ==
    /\ pc = "idle"
    /\ now <= MaxClock
    /\ \E r \in {MakeRequest(now, last_request_time, Upstream(0, o))} :
           /\ op' = [name |-> "find_faculty_research", area |-> area]
           /\ before' = last_request_time
           /\ wire' = <<Request("ListRecords", SearchParams(FALSE, FALSE, FALSE, 0), 0, r)>>
           /\ now' = r.now
           /\ last_request_time' = r.last_request_time
           /\ sent' = r.sent
           /\ result' = r.result
           /\ reply' = IF r.result # "response" THEN Raised("DataParsingError")
                       ELSE Returned(Profiles(CollectPapers(WholePage(repo).ids, 1, <<>>,
                                                            {area}, {}, 500)),
                                     0)
    /\ UNCHANGED <<config, scope, readings, sent_at, pc, mode, attempt, outcome, only500,
                   backoffs, tasks, repo>>

NextFaculty ==
    \/ Enter("sync")
    \/ \E area \in {"ai", "ml"}, o \in {Http(200), Http(500)} : FindFacultyResearch(area, o)

SpecFaculty == InitFaculty /\ [][NextFaculty]_vars

(***************************************************************************)
(* SMARTechClient.analyze_research_trends                                  *)
(***************************************************************************)
MaxYears == 2         \* the largest years argument of a trend analysis

\* Years are numbered from the current one, datetime.now().year, which is
\* year 0; year -1 is the year before it.
Date(year, month, day) == [year |-> year, month |-> month, day |-> day]

\* d is not later than e.
NotLater(d, e) ==
    \/ d.year < e.year
    \/ d.year = e.year /\ d.month < e.month
    \/ d.year = e.year /\ d.month = e.month /\ d.day <= e.day

\* sum(counts)
RECURSIVE Sum(_)
Sum(counts) == IF counts = <<>> THEN 0 ELSE Head(counts) + Sum(Tail(counts))

\* The numbers of records the repository holds for one year.
YearCounts == {0, 5, 8, 12}

\* A repository with counts[i] records in the i-th of its years, the last of
\* which is the current one; the first record of a year is dated January 1,
\* the last December 31.
TrendRepository(counts) ==
    LET n == Len(counts)
        Before(y) == Sum(SubSeq(counts, 1, y - 1))
        total == Before(n) + counts[n]
        YearOf(i) == CHOOSE y \in 1..n : Before(y) < i /\ i <= Before(y) + counts[y]
    IN  [i \in 1..total |->
           Paper(<<Author(Crowd(i), 1)>>,
                 IF i = Before(YearOf(i)) + 1 THEN Date(YearOf(i) - n, 1, 1)
                 ELSE IF i = Before(YearOf(i)) + counts[YearOf(i)]
                 THEN Date(YearOf(i) - n, 12, 31)
                 ELSE Date(YearOf(i) - n, 6, 15))]

TrendRepositories == {TrendRepository(counts) : counts \in [1..(MaxYears + 1) -> YearCounts]}

\* The records the upstream lists for the parameters from and until, all on
\* one page.
Dated(list, date_from, date_until) ==
    [found |-> TRUE,
     ids |-> SelectSeq([i \in 1..Len(list) |-> i],
                       LAMBDA i : /\ NotLater(date_from, list[i].date)
                                  /\ NotLater(list[i].date, date_until)),
     token |-> 0]

\* max(counts)
Max(counts) == CHOOSE c \in {counts[i] : i \in 1..Len(counts)} :
                   \A i \in 1..Len(counts) : counts[i] <= c

\* counts.index(value), counted from 0
Index(counts, value) ==
    (CHOOSE i \in 1..Len(counts) :
        counts[i] = value /\ \A j \in 1..(i - 1) : counts[j] # value) - 1

TrendDirectionNotLess(counts) ==
    IF counts[Len(counts)] >= counts[1] THEN "increasing" ELSE "decreasing"

TrendDirection(counts) ==
    IF counts[Len(counts)] > counts[1] THEN "increasing" ELSE "decreasing"

\* The analysis of the yearly results, the first of which is of year first.
Analysis(trends, first) ==
    LET counts == [i \in 1..Len(trends) |-> trends[i].count]
    IN  [kind |-> "ok", error |-> "none", items |-> <<>>, resumptionToken |-> 0,
         count |-> 0,
         trends_by_year |-> trends,
         total_papers |-> Sum(counts),
         trend_direction |-> TrendDirection(counts),
         peak_year |-> first + Index(counts, Max(counts)),
         average_per_year |-> [sum |-> Sum(counts), len |-> Len(counts)]]

\* The harvests of the years from the i-th on: one search_records call
\* with from and until per year, max_records = 1000; the harvest of year
\* number failing, if there is one, is answered by o.
RECURSIVE Harvests(_, _, _, _, _, _, _)
Harvests(keywords, year, failing, o, t, last, done) ==
    IF year > 0 THEN [trends |-> done.trends, wire |-> done.wire, failed |-> FALSE,
                      now |-> t, last_request_time |-> last,
                      sent |-> done.sent, result |-> done.result]
    ELSE LET r == MakeRequest(t, last, Upstream(0, IF year = failing THEN o ELSE Http(200)))
             pg == Dated(repo, Date(year, 1, 1), Date(year, 12, 31))
             papers == CollectPapers(pg.ids, 1, <<>>, keywords, {}, 1000)
             request == Request("ListRecords", SearchParams(TRUE, TRUE, FALSE, 0), 0, r)
         IN  IF r.result # "response"
               THEN [trends |-> done.trends, wire |-> Append(done.wire, request),
                     failed |-> TRUE, now |-> r.now,
                     last_request_time |-> r.last_request_time,
                     sent |-> r.sent, result |-> r.result]
               ELSE Harvests(keywords, year + 1, failing, o, r.now, r.last_request_time,
                             [trends |-> Append(done.trends,
                                                [year |-> year, count |-> Len(papers),
                                                 papers |-> papers]),
                              wire |-> Append(done.wire, request),
                              sent |-> r.sent, result |-> r.result])

InitTrends ==
    /\ InitClient
    /\ max_retries = 1
    /\ delay = 0
    /\ repo \in TrendRepositories

\* analyze_research_trends: the harvests of the years, oldest first, then
\* the statistics; every failure, an empty range of years included, is
\* re-raised as DataParsingError.
AnalyzeResearchTrends(keywords, years, failing, o) ==
    /\ pc = "idle"
    /\ now <= MaxClock
    /\ \E h \in {Harvests(keywords, 0 - years, failing, o, now, last_request_time,
                          [trends |-> <<>>, wire |-> <<>>, sent |-> 0,
                           result |-> "none"])} :
           /\ op' = [name |-> "analyze_research_trends", keywords |-> keywords,
                     years |-> years]
           /\ before' = last_request_time
           /\ wire' = h.wire
           /\ now' = h.now
           /\ last_request_time' = h.last_request_time
           /\ sent' = h.sent
           /\ result' = h.result
           /\ reply' = IF h.failed \/ h.trends = <<>> THEN Raised("DataParsingError")
                       ELSE Analysis(h.trends, 0 - years)
    /\ UNCHANGED <<config, scope, readings, sent_at, pc, mode, attempt, outcome, only500,
                   backoffs, tasks, repo>>

NextTrends ==
    \/ Enter("sync")
    \/ \E keywords \in {{"ai"}, {"ml"}}, years \in (0 - 1)..MaxYears, failing \in {0 - 1, 1},
          o \in {Http(500)} :
           AnalyzeResearchTrends(keywords, years, failing, o)

SpecTrends == InitTrends /\ [][NextTrends]_vars

(***************************************************************************)
(* OscarClient                                                             *)
(***************************************************************************)

\* An argument of a public operation: None, or a string, given by its
\* characters.
NoneArg == [none |-> TRUE, chars |-> <<>>]
Str(cs) == [none |-> FALSE, chars |-> cs]
TextArgs == {NoneArg, Str(<<>>), Str(<<" ">>), Str(<<" ", "x">>)}

\* The NetworkError OscarClient raises is the one of gtmcp.exceptions, a
\* class unrelated to the NetworkError of base_client that the transport
\* raises.
OscarNetworkError == "exceptions.NetworkError"

\* What the registration system answers in the model.
OscarOutcomes == {Http(200), Http(404)}

\* str.strip()
RECURSIVE LStrip(_)
LStrip(cs) == IF cs # <<>> /\ Head(cs) = " " THEN LStrip(Tail(cs)) ELSE cs

RECURSIVE RStrip(_)
RStrip(cs) ==
    IF cs # <<>> /\ cs[Len(cs)] = " " THEN RStrip(SubSeq(cs, 1, Len(cs) - 1)) ELSE cs

Strip(cs) == RStrip(LStrip(cs))

\* `not arg or not arg.strip()`
BlankNoStrip(a) == a.none \/ a.chars = <<>>

Blank(a) == a.none \/ a.chars = <<>> \/ Strip(a.chars) = <<>>

(***************************************************************************)
(* Text of the pages of the registration system: a text is the sequence   *)
(* of its characters, the separator " - " of a caption being written as    *)
(* the one character "|".                                                  *)
(***************************************************************************)
Upper == {"A", "B", "C", "S"}
Digit == {"0", "1", "2", "3", "5"}

\* str.split(' - ')
RECURSIVE SplitFrom(_, _, _)
SplitFrom(cs, i, part) ==
    IF i > Len(cs) THEN <<part>>
    ELSE IF cs[i] = "|" THEN <<part>> \o SplitFrom(cs, i + 1, <<>>)
    ELSE SplitFrom(cs, i + 1, Append(part, cs[i]))

Split(cs) == SplitFrom(cs, 1, <<>>)

\* ' - ' in text
HasSeparator(cs) == \E i \in 1..Len(cs) : cs[i] = "|"

\* needle in text
Contains(cs, needle) ==
    \E i \in 0..(Len(cs) - Len(needle)) :
        \A j \in 1..Len(needle) : cs[i + j] = needle[j]

\* text.startswith(prefix)
StartsWith(cs, prefix) ==
    /\ Len(prefix) <= Len(cs)
    /\ \A j \in 1..Len(prefix) : cs[j] = prefix[j]

\* The longest prefix of a text made of characters of a class.
RECURSIVE Span(_, _)
Span(cs, class) ==
    IF cs # <<>> /\ Head(cs) \in class THEN <<Head(cs)>> \o Span(Tail(cs), class) ELSE <<>>

Drop(cs, n) == SubSeq(cs, n + 1, Len(cs))

\* re.match(r'^([A-Z]+)\s*(\d+[A-Z]*)$', course_code): whether it matches,
\* and its two groups.
CourseMatch(course_code) ==
    LET letters == Span(course_code, Upper)
        rest == LStrip(Drop(course_code, Len(letters)))
        digits == Span(rest, Digit)
        suffix == Drop(rest, Len(digits))
    IN  [matches |-> /\ letters # <<>>
                     /\ digits # <<>>
                     /\ \A i \in 1..Len(suffix) : suffix[i] \in Upper,
         subject |-> letters,
         course_number |-> rest]

\* str.lower()
ToLower(c) ==
    CASE c = "A" -> "a" [] c = "B" -> "b" [] c = "C" -> "c" [] c = "S" -> "s"
      [] c = "V" -> "v" [] c = "O" -> "o"
      [] c = "Spring 2025" -> "spring 2025" [] c = "Spring 2024" -> "spring 2024"
      [] c = "Spring 2022" -> "spring 2022" [] c = "None" -> "none"
      [] OTHER -> c

Lower(cs) == [i \in 1..Len(cs) |-> ToLower(cs[i])]

(***************************************************************************)
(* The course listing                                                      *)
(***************************************************************************)
MaxTables == 3        \* data tables on the course-listing page

\* A data table of the listing page: its caption element (None when it has
\* none) holds the caption text.
Table(caption) == [caption |-> caption]

TableKinds ==
    { Table(NoneArg),
      Table(Str(<<"a", "|", "C", "S", " ", "1", "3", "0", "1", "|", "7">>)),
      Table(Str(<<"a", "|", "c", "s", " ", "1", "|", "7", "|", "A">>)),
      Table(Str(<<" ", "a", "|", "C", "S", " ", "1", "3", "0", "1", "|", "7", "|", "A", " ">>)),
      Table(Str(<<"B", "|", "C", "S", "1", "3", "3", "1", "|", "8", "|", "A">>)),
      Table(Str(<<"a", "|", "C", "S", " ", "1", "3", "3", "2", "|", "5", "|", "B", "|", "x">>)) }

RECURSIVE SeqsUpTo(_, _)
SeqsUpTo(S, n) ==
    IF n = 0 THEN {<<>>}
    ELSE LET shorter == SeqsUpTo(S, n - 1)
         IN  shorter \cup {Append(q, x) : q \in shorter, x \in S}

Listings == SeqsUpTo(TableKinds, MaxTables)

CourseInfo(crn, title, subject, course_number, section) ==
    [crn |-> crn, title |-> title, subject |-> subject,
     course_number |-> course_number, section |-> section]

\* What the loop of get_courses_by_subject makes of one table: the courses
\* it appends.
CoursesOfTableThree(table) ==
    IF table.caption.none THEN <<>>
    ELSE LET caption_text == Strip(table.caption.chars)
             parts == Split(caption_text)
             course_match == CourseMatch(Strip(parts[2]))
         IN  IF HasSeparator(caption_text) /\ Len(parts) >= 3 /\ course_match.matches
               THEN <<CourseInfo(Strip(parts[3]), Strip(parts[1]), course_match.subject,
                                 course_match.course_number,
                                 IF Len(parts) >= 4 THEN Strip(parts[4]) ELSE <<>>)>>
               ELSE <<>>

CoursesOfTable(table) ==
    IF table.caption.none THEN <<>>
    ELSE LET caption_text == Strip(table.caption.chars)
             parts == Split(caption_text)
             course_match == CourseMatch(Strip(parts[2]))
         IN  IF HasSeparator(caption_text) /\ Len(parts) >= 4 /\ course_match.matches
               THEN <<CourseInfo(Strip(parts[3]), Strip(parts[1]), course_match.subject,
                                 course_match.course_number, Strip(parts[4]))>>
               ELSE <<>>

\* The loop over the data tables of the listing page.
RECURSIVE ParseListing(_)
ParseListing(tables) ==
    IF tables = <<>> THEN <<>>
    ELSE CoursesOfTable(Head(tables)) \o ParseListing(Tail(tables))

\* The filters of search_courses: the course number, when given and not
\* empty, must occur in course_number; the title, when given and not empty,
\* must occur in the title, whatever the case of the title's letters.
KeepsUnstripped(course, course_num, title) ==
    /\ (course_num.none \/ course_num.chars = <<>>)
          \/ Contains(course.course_number, course_num.chars)
          \/ StartsWith(course.course_number, course_num.chars)
    /\ (title.none \/ title.chars = <<>>)
          \/ Contains(Lower(course.title), Strip(Lower(title.chars)))

Keeps(course, course_num, title) ==
    /\ (course_num.none \/ course_num.chars = <<>>)
          \/ Contains(course.course_number, Strip(course_num.chars))
          \/ StartsWith(course.course_number, Strip(course_num.chars))
    /\ (title.none \/ title.chars = <<>>)
          \/ Contains(Lower(course.title), Strip(Lower(title.chars)))

FilterCourses(courses, course_num, title) ==
    SelectSeq(courses, LAMBDA c : Keeps(c, course_num, title))

(***************************************************************************)
(* The course-details page                                                 *)
(***************************************************************************)
MaxRows == 2          \* rows of the Registration Availability table

\* A cell of a table row: a number, or a text int() does not take.
Num(n) == [numeric |-> TRUE, value |-> n]
NotNum == [numeric |-> FALSE, value |-> 0]

\* A row of the Registration Availability table: the words of its header
\* cell and the cells that follow it.
Row(words, cells) == [words |-> words, cells |-> cells]

RowsOf(words, a, b, c) ==
    { Row(words, <<Num(a), Num(b), Num(c)>>),
      Row(words, <<NotNum, Num(b), Num(c)>>),
      Row(words, <<Num(a), NotNum, Num(c)>>),
      Row(words, <<Num(a), Num(b)>>) }

RowKinds ==
    RowsOf({"Seats"}, 5, 3, 2) \cup RowsOf({"Waitlist"}, 4, 1, 3)
        \cup RowsOf({"Waitlist", "Seats"}, 4, 1, 3)

NoRegistration == [present |-> FALSE, rows |-> <<>>]
RegistrationTables ==
    {NoRegistration} \cup {[present |-> TRUE, rows |-> rows] : rows \in SeqsUpTo(RowKinds, MaxRows)}

GoodCaption == Str(<<"a", "|", "C", "S", " ", "1", "3", "0", "1", "|", "7", "|", "A">>)

DetailPage(table, caption, registration) ==
    [table |-> table, caption |-> caption, registration |-> registration]

NoDetailTable == DetailPage(FALSE, NoneArg, NoRegistration)

DetailPages ==
    {NoDetailTable}
        \cup {DetailPage(TRUE, GoodCaption, reg) : reg \in RegistrationTables}

RegistrationInfo(sc, sa, sr, wc, wa, wr) ==
    [seats_capacity |-> sc, seats_actual |-> sa, seats_remaining |-> sr,
     waitlist_capacity |-> wc, waitlist_actual |-> wa, waitlist_remaining |-> wr]

\* The three assignments of a try block of _extract_registration_info, each
\* converting a cell with int(): the first cell that is not a number ends
\* the block and keeps what was assigned before it.
ReadSeats(info, cells) ==
    IF ~cells[1].numeric THEN info
    ELSE LET one == [info EXCEPT !.seats_capacity = cells[1].value]
         IN  IF ~cells[2].numeric THEN one
             ELSE LET two == [one EXCEPT !.seats_actual = cells[2].value]
                  IN  IF ~cells[3].numeric THEN two
                      ELSE [two EXCEPT !.seats_remaining = cells[3].value]

ReadWaitlist(info, cells) ==
    IF ~cells[1].numeric THEN info
    ELSE LET one == [info EXCEPT !.waitlist_capacity = cells[1].value]
         IN  IF ~cells[2].numeric THEN one
             ELSE LET two == [one EXCEPT !.waitlist_actual = cells[2].value]
                  IN  IF ~cells[3].numeric THEN two
                      ELSE [two EXCEPT !.waitlist_remaining = cells[3].value]

\* The loop of _extract_registration_info over the rows of the table: a row
\* of at least four cells (the header cell and three more) is read as the
\* seats when its text contains 'Seats', else as the waitlist when it
\* contains 'Waitlist'.
RECURSIVE ReadRows(_, _)
ReadRows(rows, info) ==
    IF rows = <<>> THEN info
    ELSE LET row == Head(rows)
         IN  ReadRows(Tail(rows),
                      IF 1 + Len(row.cells) < 4 THEN info
                      ELSE IF "Seats" \in row.words THEN ReadSeats(info, row.cells)
                      ELSE IF "Waitlist" \in row.words THEN ReadWaitlist(info, row.cells)
                      ELSE info)

ExtractRegistrationInfo(page) ==
    ReadRows(page.registration.rows, RegistrationInfo(0, 0, 0, 0, 0, 0))

\* The body of get_course_details after the response: the ParseError it
\* raises, or the CourseDetails it builds (the fields read from the rows of
\* the main table, the restrictions and the catalog link are left out: they
\* are read independently of the others and raise nothing).
ParseDetails(page) ==
    IF ~page.table THEN [error |-> "ParseError", details |-> <<>>]
    ELSE IF page.caption.none THEN [error |-> "ParseError", details |-> <<>>]
    ELSE LET parts == Split(Strip(page.caption.chars))
             course_match == CourseMatch(Strip(parts[2]))
         IN  IF Len(parts) < 4 THEN [error |-> "ParseError", details |-> <<>>]
             ELSE IF ~course_match.matches THEN [error |-> "ParseError", details |-> <<>>]
             ELSE [error |-> "none",
                   details |->
                     << [crn |-> Strip(parts[3]), title |-> Strip(parts[1]),
                         subject |-> course_match.subject,
                         course_number |-> course_match.course_number,
                         section |-> Strip(parts[4]),
                         registration |-> ExtractRegistrationInfo(page)] >>]

(***************************************************************************)
(* The pages the registration system serves                                *)
(***************************************************************************)
MaxOptions == 3       \* options of a dropdown

\* An option element: its value attribute and its text.  A word no operation
\* looks into is written as one character of the text.
Option(value, text) == [value |-> value, text |-> text]

\* The marker of a term that is open for viewing only, in the letter case of
\* its two words.
ViewOnlyMarker(v, o) == <<"(", v, "i", "e", "w", " ", o, "n", "l", "y", ")">>

TermOptions ==
    { Option(<<>>, <<"None">>),
      Option(<<"202502">>, <<"Spring 2025">>),
      Option(<<"202402">>, <<"Spring 2024", " ">> \o ViewOnlyMarker("V", "o")),
      Option(<<"202205">>, <<"Spring 2022", " ">> \o ViewOnlyMarker("V", "O")) }

SubjectOptions ==
    { Option(<<"CS">>, <<"Computer Science">>),
      Option(<<"dummy">>, <<"Select">>),
      Option(<<"%">>, <<"All">>),
      Option(<<>>, <<>>) }

\* The select element of a page, if the page has it, and its options in
\* document order.
Dropdown(present, options) == [present |-> present, options |-> options]

\* The dropdowns of the pages the tests of the repository serve.
FixtureTerms ==
    << Option(<<>>, <<"None">>),
       Option(<<"202502">>, <<"Spring 2025">>),
       Option(<<"202402">>, <<"Spring 2024", " ">> \o ViewOnlyMarker("V", "o")) >>

FixtureSubjects ==
    << Option(<<"CS">>, <<"Computer Science">>),
       Option(<<"MATH">>, <<"Mathematics">>) >>

\* The options the loops of get_available_semesters and get_subjects keep:
\* `if value and text and value != '%'`, on the stripped value and text.
KeptOptions(options) ==
    SelectSeq(options,
              LAMBDA option : /\ Strip(option.value) # <<>>
                              /\ Strip(option.text) # <<>>
                              /\ Strip(option.value) # <<"%">>)

Semester(code, name, view_only) == [code |-> code, name |-> name, view_only |-> view_only]

\* 'view only' in text.lower()
ViewOnly(text) ==
    Contains(Lower(text), <<"v", "i", "e", "w", " ", "o", "n", "l", "y">>)

Semesters(options) ==
    [i \in 1..Len(KeptOptions(options)) |->
        Semester(Strip(KeptOptions(options)[i].value),
                 Strip(KeptOptions(options)[i].text),
                 ViewOnly(Strip(KeptOptions(options)[i].text)))]

Subject(code, name) == [code |-> code, name |-> name]

Subjects(options) ==
    [i \in 1..Len(KeptOptions(options)) |->
        Subject(Strip(KeptOptions(options)[i].value),
                Strip(KeptOptions(options)[i].text))]

Site(semesters, subjects, listing, detail) ==
    [semesters |-> semesters, subjects |-> subjects, listing |-> listing,
     detail |-> detail]

GoodListing ==
    <<Table(Str(<<"B", "|", "C", "S", "1", "3", "3", "1", "|", "8", "|", "A">>))>>

GoodRegistration ==
    [present |-> TRUE,
     rows |-> <<Row({"Seats"}, <<Num(5), Num(3), Num(2)>>),
                Row({"Waitlist"}, <<Num(4), Num(1), Num(3)>>)>>]

GoodSite ==
    Site(Dropdown(TRUE, FixtureTerms), Dropdown(TRUE, FixtureSubjects), GoodListing,
         DetailPage(TRUE, GoodCaption, GoodRegistration))

OscarSites ==
    { GoodSite,
      Site(Dropdown(FALSE, <<>>), Dropdown(FALSE, <<>>), <<>>, NoDetailTable),
      Site(Dropdown(TRUE, FixtureTerms), Dropdown(TRUE, FixtureSubjects), GoodListing,
           DetailPage(TRUE, NoneArg, NoRegistration)) }

InitOscar ==
    /\ InitClient
    /\ max_retries = 1
    /\ delay = 1
    /\ repo \in OscarSites

\* What an operation does to the variables of the instance: its requests, its
\* reply, and the clock and pacing clock it leaves.
Effect(o, w, t, last, rep) ==
    /\ op' = o
    /\ before' = last_request_time
    /\ wire' = w
    /\ now' = t
    /\ last_request_time' = last
    /\ reply' = rep
    /\ UNCHANGED <<config, scope, readings, sent_at, call, repo>>

Invalid(o) == Effect(o, <<>>, now, last_request_time, Raised("ValidationError"))

\* get_available_semesters: one GET; the page must hold the term dropdown.
GetAvailableSemesters(o) ==
    /\ pc = "idle"
    /\ now <= MaxClock
    /\ \E r \in {MakeRequest(now, last_request_time, Upstream(0, o))} :
         Effect([name |-> "get_available_semesters"],
                <<Request("semesters", {}, 0, r)>>,
                r.now, r.last_request_time,
                IF r.result = "response" /\ repo.semesters.present
                  THEN Returned(Semesters(repo.semesters.options), 0)
                  ELSE Raised(OscarNetworkError))

\* get_subjects: the term-selection POST; the page must hold the subject
\* dropdown.  Every failure inside the try block, a ParseError included, is
\* re-raised as NetworkError.
GetSubjects(term_code, o) ==
    /\ pc = "idle"
    /\ now <= MaxClock
    /\ LET this == [name |-> "get_subjects", term |-> term_code]
       IN  IF Blank(term_code) THEN Invalid(this)
           ELSE \E r \in {MakeRequest(now, last_request_time, Upstream(0, o))} :
                  Effect(this,
                         <<Request("term_submit", {"p_calling_proc", "p_term"}, 0, r)>>,
                         r.now, r.last_request_time,
                         IF r.result = "response" /\ repo.subjects.present
                           THEN Returned(Subjects(repo.subjects.options), 0)
                           ELSE Raised(OscarNetworkError))

\* A literal of the source, and a field of a form.
Lit(s) == Str(<<s>>)
Field(n, v) == [name |-> n, value |-> v]

\* term_form_data and subject_form_data of get_courses_by_subject.
TermForm(term_code) ==
    << Field("p_calling_proc", Lit("bwckschd.p_disp_dyn_sched")),
       Field("p_term", term_code) >>

SubjectForm(term_code, subject) ==
    << Field("term_in", term_code),
       Field("sel_subj", Lit("dummy")),
       Field("sel_subj", subject),
       Field("sel_day", Lit("dummy")),
       Field("sel_schd", Lit("%")),
       Field("sel_insm", Lit("dummy")),
       Field("sel_camp", Lit("%")),
       Field("sel_levl", Lit("%")),
       Field("sel_sess", Lit("%")),
       Field("sel_instr", Lit("%")),
       Field("sel_ptrm", Lit("%")),
       Field("sel_attr", Lit("%")),
       Field("sel_crse", Str(<<>>)),
       Field("sel_title", Str(<<>>)),
       Field("begin_hh", Lit("0")),
       Field("begin_mi", Lit("0")),
       Field("begin_ap", Lit("a")),
       Field("end_hh", Lit("0")),
       Field("end_mi", Lit("0")),
       Field("end_ap", Lit("a")) >>

\* What the operation makes of the listing page: get_courses_by_subject
\* returns the courses of its tables, search_courses filters them.
Listed(this) ==
    IF this.name = "search_courses"
      THEN FilterCourses(ParseListing(repo.listing), this.course_num, this.title)
      ELSE ParseListing(repo.listing)

\* A POST handed to _make_request, with how that call ended.
Post(target, form, r) ==
    [target |-> target, names |-> {form[i].name : i \in 1..Len(form)}, token |-> 0,
     sent |-> r.sent, form |-> form, result |-> r.result]

\* The body of get_courses_by_subject after validation, with both POSTs issued
\* whatever the first one met.
CoursesBySubjectBoth(this, o1, o2) ==
    \E r1 \in {MakeRequest(now, last_request_time, Upstream(0, o1))} :
      \E r2 \in {MakeRequest(r1.now, r1.last_request_time, Upstream(0, o2))} :
        Effect(this,
               <<Post("term_submit", TermForm(this.term), r1),
                 Post("course_search", SubjectForm(this.term, this.subject), r2)>>,
               r2.now, r2.last_request_time,
               IF r1.result = "response" /\ r2.result = "response"
                 THEN Returned(Listed(this), 0) ELSE Raised(OscarNetworkError))

\* The body of get_courses_by_subject after validation: the term-selection
\* POST, then the course-listing POST; an exception of the first ends it.
CoursesBySubject(this, o1, o2) ==
    \E r1 \in {MakeRequest(now, last_request_time, Upstream(0, o1))} :
      LET first == Post("term_submit", TermForm(this.term), r1)
      IN  IF r1.result # "response"
            THEN Effect(this, <<first>>, r1.now, r1.last_request_time,
                        Raised(OscarNetworkError))
            ELSE \E r2 \in {MakeRequest(r1.now, r1.last_request_time, Upstream(0, o2))} :
                   Effect(this,
                          <<first,
                            Post("course_search", SubjectForm(this.term, this.subject), r2)>>,
                          r2.now, r2.last_request_time,
                          IF r2.result = "response"
                            THEN Returned(Listed(this), 0)
                            ELSE Raised(OscarNetworkError))

GetCoursesBySubject(term_code, subject, o1, o2) ==
    /\ pc = "idle"
    /\ now <= MaxClock
    /\ LET this == [name |-> "get_courses_by_subject", term |-> term_code,
                    subject |-> subject]
       IN  IF Blank(term_code) \/ Blank(subject) THEN Invalid(this)
           ELSE CoursesBySubject(this, o1, o2)

\* search_courses with the filters handed to the upstream in the fields
\* sel_crse and sel_title of the course-listing form.
SearchCoursesRemote(term_code, subject, course_num, title, o1, o2) ==
    /\ pc = "idle"
    /\ now <= MaxClock
    /\ LET this == [name |-> "search_courses", term |-> term_code, subject |-> subject,
                    course_num |-> course_num, title |-> title]
           form == [i \in 1..Len(SubjectForm(term_code, subject)) |->
                      LET f == SubjectForm(term_code, subject)[i]
                      IN  IF f.name = "sel_crse" THEN Field("sel_crse", course_num)
                          ELSE IF f.name = "sel_title" THEN Field("sel_title", title)
                          ELSE f]
       IN  IF Blank(term_code) \/ Blank(subject) THEN Invalid(this)
           ELSE \E r1 \in {MakeRequest(now, last_request_time, Upstream(0, o1))} :
                  \E r2 \in {MakeRequest(r1.now, r1.last_request_time, Upstream(0, o2))} :
                    Effect(this,
                           <<Post("term_submit", TermForm(term_code), r1)>>
                             \o (IF r1.result = "response"
                                   THEN <<Post("course_search", form, r2)>> ELSE <<>>),
                           IF r1.result = "response" THEN r2.now ELSE r1.now,
                           IF r1.result = "response" THEN r2.last_request_time
                             ELSE r1.last_request_time,
                           IF r1.result = "response" /\ r2.result = "response"
                             THEN Returned(Listed(this), 0)
                             ELSE Raised(OscarNetworkError))

\* search_courses: get_courses_by_subject, then the filters applied to its
\* result.
SearchCourses(term_code, subject, course_num, title, o1, o2) ==
    /\ pc = "idle"
    /\ now <= MaxClock
    /\ LET this == [name |-> "search_courses", term |-> term_code, subject |-> subject,
                    course_num |-> course_num, title |-> title]
       IN  IF Blank(term_code) \/ Blank(subject) THEN Invalid(this)
           ELSE CoursesBySubject(this, o1, o2)

\* get_course_details: one GET; the page must hold the main table, its
\* caption of four parts and a course code.
GetCourseDetails(term_code, crn, o) ==
    /\ pc = "idle"
    /\ now <= MaxClock
    /\ LET this == [name |-> "get_course_details", term |-> term_code, crn |-> crn]
       IN  IF Blank(term_code) \/ Blank(crn) THEN Invalid(this)
           ELSE \E r \in {MakeRequest(now, last_request_time, Upstream(0, o))},
                   parsed \in {ParseDetails(repo.detail)} :
                  Effect(this,
                         <<Request("course_detail", {"term_in", "crn_in"}, 0, r)>>,
                         r.now, r.last_request_time,
                         IF r.result = "response" /\ parsed.error = "none"
                           THEN Returned(parsed.details, 0)
                           ELSE Raised(OscarNetworkError))

NextOscar ==
    \/ Tick
    \/ Enter("sync")
    \/ \E path \in {"normal", "exception"} : Exit("sync", path)
    \/ \E o \in OscarOutcomes : GetAvailableSemesters(o)
    \/ \E term_code \in TextArgs, o \in OscarOutcomes : GetSubjects(term_code, o)
    \/ \E term_code \in TextArgs, subject \in TextArgs, o1 \in OscarOutcomes,
          o2 \in OscarOutcomes :
           GetCoursesBySubject(term_code, subject, o1, o2)
    \/ \E term_code \in TextArgs, subject \in TextArgs, o1 \in OscarOutcomes,
          o2 \in OscarOutcomes :
           SearchCourses(term_code, subject, NoneArg, NoneArg, o1, o2)
    \/ \E term_code \in TextArgs, crn \in TextArgs, o \in OscarOutcomes :
           GetCourseDetails(term_code, crn, o)

SpecOscar == InitOscar /\ [][NextOscar]_vars

\* The course listing: a client that paces nothing, called with a term and a
\* subject, over every listing page.
ValidArg == Str(<<"x">>)

CourseNums == {NoneArg, Str(<<"1", "3", "0">>), Str(<<" ", "1", "3", "3">>)}
Titles == {NoneArg, Str(<<"A", " ">>)}

InitCatalog ==
    /\ InitClient
    /\ max_retries = 1
    /\ delay = 0
    /\ repo \in {Site(Dropdown(TRUE, FixtureTerms), Dropdown(TRUE, FixtureSubjects),
                       listing, NoDetailTable) :
                  listing \in Listings}

NextCatalog ==
    \/ Enter("sync")
    \/ \E o2 \in OscarOutcomes : GetCoursesBySubject(ValidArg, ValidArg, Http(200), o2)
    \/ \E course_num \in CourseNums, title \in Titles :
           SearchCourses(ValidArg, ValidArg, course_num, title, Http(200), Http(200))

SpecCatalog == InitCatalog /\ [][NextCatalog]_vars

\* The course details: the same client over every details page.
InitDetails ==
    /\ InitClient
    /\ max_retries = 1
    /\ delay = 0
    /\ repo \in {Site(Dropdown(TRUE, FixtureTerms), Dropdown(TRUE, FixtureSubjects),
                       <<>>, detail) :
                  detail \in DetailPages}

NextDetails ==
    \/ Enter("sync")
    \/ \E o \in OscarOutcomes : GetCourseDetails(ValidArg, ValidArg, o)

SpecDetails == InitDetails /\ [][NextDetails]_vars

\* The dropdowns: a client that paces nothing, over every term dropdown and
\* every subject dropdown of up to MaxOptions options.
InitDropdowns ==
    /\ InitClient
    /\ max_retries = 1
    /\ delay = 0
    /\ repo \in {Site(Dropdown(TRUE, terms), Dropdown(TRUE, FixtureSubjects),
                      <<>>, NoDetailTable) : terms \in SeqsUpTo(TermOptions, MaxOptions)}
          \cup {Site(Dropdown(TRUE, FixtureTerms), Dropdown(TRUE, subjects),
                     <<>>, NoDetailTable) :
                  subjects \in SeqsUpTo(SubjectOptions, MaxOptions)}

NextDropdowns ==
    \/ Enter("sync")
    \/ \E o \in OscarOutcomes : GetAvailableSemesters(o)
    \/ \E o \in OscarOutcomes : GetSubjects(ValidArg, o)

SpecDropdowns == InitDropdowns /\ [][NextDropdowns]_vars

(***************************************************************************)
(* Properties of the transport                                             *)
(***************************************************************************)
BaseDelay == 1

\* The backoff sleeps a call has made after its first n attempts failed.
Doubling(n) == [k \in 1..n |-> BaseDelay * 2 ^ (k - 1)]

ErrorStatus(o) == o.kind = "response" /\ o.status >= 400

\* C1: an attempt that meets HTTP 429 ends the call with RateLimitError: the
\* call is over after that attempt, and no backoff sleep follows it.
C1_RateLimitRaisedAtOnce ==
    (sent >= 1 /\ outcome = Http(429)) =>
        /\ pc = "idle"
        /\ result = "RateLimitError"
        /\ Len(backoffs) = sent - 1

\* C2: while the upstream has answered 500 to every attempt and attempts
\* remain, the call goes on, having slept 1, 2, 4, ... between them; when the
\* next attempt meets 200 the call returns the response, after sent attempts
\* and sent - 1 backoffs, each twice the one before.
C2_RetryThenSuccess ==
    /\ (sent >= 1 /\ sent < max_retries /\ only500 /\ outcome = Http(500)) =>
            pc = "loop" /\ attempt = sent /\ backoffs = Doubling(sent)
    /\ (sent >= 1 /\ only500 /\ outcome = Http(200)) =>
            /\ pc = "idle"
            /\ result = "response"
            /\ backoffs = Doubling(sent - 1)
            /\ \A k \in 2..Len(backoffs) : backoffs[k] > backoffs[k - 1]

C2_Witness ==
    /\ max_retries = 3
    /\ pc = "idle"
    /\ result = "response"
    /\ sent = max_retries
    /\ only500
    /\ outcome = Http(200)
    /\ backoffs = <<1, 2>>

\* C3: a call whose every attempt met 500 ends only after max_retries
\* attempts, and with NetworkError; no call makes more than max_retries
\* attempts.
C3_ExhaustionAfterMaxRetries ==
    /\ sent <= max_retries
    /\ (sent >= 1 /\ only500 /\ outcome = Http(500)) =>
            IF sent < max_retries
              THEN pc = "loop"
              ELSE pc = "idle" /\ result = "NetworkError"

C3_Witness ==
    /\ max_retries = 3
    /\ sent = 3
    /\ only500
    /\ outcome = Http(500)
    /\ pc = "idle"
    /\ result = "NetworkError"

\* C4 as stated: a connection error, a timeout or any 5xx is retried while
\* attempts remain; a 4xx other than 429 ends the call at once with
\* NetworkError, without a backoff after it.
C4_Any5xxRetried ==
    sent >= 1 =>
        /\ (/\ \/ outcome.kind \in {"Timeout", "ConnectionError"}
               \/ (outcome.kind = "response" /\ outcome.status \in 500..599)
            /\ sent < max_retries) => pc = "loop"
        /\ (ErrorStatus(outcome) /\ outcome.status \in 400..499 \ {429}) =>
               pc = "idle" /\ result = "NetworkError" /\ Len(backoffs) = sent - 1

\* C4 as amended: a connection error, a timeout or a status 500, 502, 503 or
\* 504 is retried while attempts remain (and raises NetworkError on the last
\* attempt); every other error status except 429 ends the call at once with
\* NetworkError, without a backoff after it.
C4_ListedStatusesRetried ==
    sent >= 1 =>
        /\ (\/ outcome.kind \in {"Timeout", "ConnectionError"}
            \/ (outcome.kind = "response" /\ outcome.status \in {500, 502, 503, 504})) =>
               IF sent < max_retries
                 THEN pc = "loop" /\ Len(backoffs) = sent
                 ELSE pc = "idle" /\ result = "NetworkError"
        /\ (ErrorStatus(outcome) /\ outcome.status \notin {429, 500, 502, 503, 504}) =>
               pc = "idle" /\ result = "NetworkError" /\ Len(backoffs) = sent - 1

C4_Witness ==
    /\ max_retries = 3
    /\ sent = 2
    /\ outcome = Http(404)
    /\ pc = "idle"
    /\ result = "NetworkError"
    /\ backoffs = <<1>>

\* C5: with delay > 0 the values written to _last_request_time for two
\* consecutive attempts are at least delay apart.
C5_Spacing ==
    (delay > 0 /\ Len(readings) = 2) => readings[1] - readings[2] >= delay

C5_Witness ==
    /\ delay = 2
    /\ Len(readings) = 2
    /\ readings[1] - readings[2] = delay
    /\ sent = 1

\* C6: _last_request_time never decreases, and every outbound attempt,
\* whatever it meets, leaves it at the clock reading the request went out at.
C6_LastRequestTime ==
    [][/\ last_request_time' >= last_request_time
       /\ sent' = sent + 1 =>
              last_request_time' = sent_at' /\ last_request_time' >= now]_vars

C6_Witness ==
    /\ sent = 2
    /\ outcome = Http(429)
    /\ last_request_time = sent_at
    /\ last_request_time > 0
    /\ Len(readings) = 2
    /\ readings[1] = readings[2] + 1

\* C7: outside every with-block of a mode the instance holds no session of
\* that mode and none is left unclosed, and a call made there raises
\* ClientError without an outbound attempt.
C7_ScopeRequired ==
    /\ [](\A m \in Modes : depth[m] = 0 => session[m] = "None" /\ unclosed[m] = 0)
    /\ [][\A m \in Modes :
             (StartRequest(m) /\ depth[m] = 0) =>
                 /\ pc' = "idle"
                 /\ result' = "ClientError"
                 /\ sent' = 0
                 /\ last_request_time' = last_request_time]_vars

C7_Witness ==
    /\ readings # <<>>
    /\ \A m \in Modes : depth[m] = 0 /\ unclosed[m] = 0 /\ session[m] = "None"
    /\ last_exit = "exception"
    /\ pc = "idle"
    /\ result = "ClientError"
    /\ sent = 0

\* One iteration of the retry loop as the code of mode m runs it on outcome
\* o: the pacing sleep, the value left in _last_request_time, and whether it
\* returns, raises (which error) or backs off (how long) and goes round.
Iteration(m, o) ==
    LET rl == IF m = "sync" THEN EnforceRateLimit(now, last_request_time)
              ELSE AEnforceRateLimit(now, last_request_time)
        c == IF m = "sync" THEN Classify(o, attempt) ELSE AClassify(o, attempt)
    IN  [pacing |-> rl.sleep_time, last_request_time |-> rl.last_request_time,
         act |-> c.act, error |-> c.error, backoff |-> c.backoff]

\* What a step of the loop did, read off the variables.
Observed ==
    [pacing |-> sent_at' - now,
     last_request_time |-> last_request_time',
     act |-> IF pc' = "loop" THEN "retry"
             ELSE IF result' = "response" THEN "return" ELSE "raise",
     error |-> IF pc' = "loop" \/ result' = "response" THEN "none" ELSE result',
     backoff |-> IF pc' = "loop" THEN backoffs'[Len(backoffs')] ELSE 0]

\* C12: every iteration a call makes, blocking or suspending, is the
\* iteration the blocking code and the suspending code both make from that
\* state on that outcome (same pacing sleep, same backoff sleep, same
\* decision and error kind), the attempt counters advance alike, and a call
\* of either mode falls out of the loop after the same number of attempts;
\* so for every outcome sequence and every max_retries whole calls agree on
\* attempts, sleeps and result.
C12_ModesAgree ==
    [][ /\ (pc = "loop" /\ sent' = sent + 1)
            => /\ Observed = Iteration("sync", outcome')
               /\ Observed = Iteration("async", outcome')
               /\ attempt' = attempt + (IF pc' = "loop" THEN 1 ELSE 0)
        /\ (pc = "loop" /\ sent' = sent /\ pc' = "idle")
            => (attempt = max_retries /\ result' = "None")
      ]_vars

\* A suspending call that met a 500, slept the first backoff and then
\* succeeded.
C12_Witness ==
    /\ mode = "async"
    /\ pc = "idle"
    /\ result = "response"
    /\ sent = 2
    /\ backoffs = <<1>>

\* C27 as stated: a call of _make_request or _make_async_request made
\* inside an open scope ends with a response or with an error, whatever
\* max_retries the instance was built with; it never returns without a
\* response.
C27_NeverReturnsNone ==
    (pc = "idle" /\ result # "none")
        => result \in {"response", "ClientError", "NetworkError", "RateLimitError"}

(***************************************************************************)
(* Properties of SMARTechClient                                            *)
(***************************************************************************)

\* The matching records of the page a search_records call requested, in the
\* order of the page.
MatchingOfPage ==
    SelectSeq(Page(repo, wire[1].token).ids,
              LAMBDA id : MatchesCriteria(repo[id], op.keywords, op.subject_areas))

C9_TokenAlone ==
    \A i \in 1..Len(wire) :
        (wire[i].token # 0 /\ wire[i].sent > 0)
            => wire[i].names = {"verb", "resumptionToken"}

\* C25 as stated: a caller who starts search_records without a token and
\* goes on with each returned token until none is returned has received,
\* for a cap of at least 1, every record of the repository that matches the
\* filters exactly once, and no other record.
C25_EveryMatchOnce ==
    (/\ op.name = "search_records"
     /\ op.followed
     /\ op.max_records >= 1
     /\ reply.kind = "ok"
     /\ reply.resumptionToken = 0)
        => \A id \in 1..Len(repo) :
             Cardinality({k \in 1..Len(op.received) : op.received[k] = id})
                = IF MatchesCriteria(repo[id], op.keywords, op.subject_areas) THEN 1 ELSE 0

\* C26 as stated: search_records never returns more than max_records papers,
\* for every max_records >= 0, and the count it returns is the number of the
\* papers it returns.
C26_AtMostMaxRecords ==
    (op.name = "search_records" /\ reply.kind = "ok")
        => /\ Len(reply.items) <= op.max_records
           /\ reply.count = Len(reply.items)

\* The name an author string is written under: its pieces before the
\* affiliation, which opens with "(" or with the name of the institute,
\* without the separators that lead to it.
RECURSIVE NamePart(_)
NamePart(author) ==
    IF \E i \in 1..Len(author) :
           author[i] \in {"(", "Georgia Tech", "georgia tech",
                          "Georgia Institute of Technology",
                          "GEORGIA INSTITUTE OF TECHNOLOGY"}
    THEN NamePart(SubSeq(author, 1, Len(author) - 1))
    ELSE IF author # <<>> /\ author[Len(author)] \in {" ", ","}
    THEN NamePart(SubSeq(author, 1, Len(author) - 1))
    ELSE author

\* The papers of the repository that match the area and carry the author.
Clustered(author) ==
    {i \in 1..Len(repo) :
        /\ op.area \in repo[i].text \cup repo[i].subjects
        /\ \E j \in 1..Len(repo[i].authors) :
             NamePart(repo[i].authors[j]) = author}

AllAuthors ==
    {NamePart(repo[i].authors[j]) : i \in 1..Len(repo), j \in {1}}

\* C19 as stated: find_faculty_research returns at most 20 profiles, each
\* with at least as many clustered papers as the next, and no author left
\* out has more clustered papers than a returned one.
C19_RankedByClusterSize ==
    (op.name = "find_faculty_research" /\ reply.kind = "ok")
        => /\ Len(reply.items) <= 20
           /\ \A i \in 1..Len(reply.items), j \in 1..Len(reply.items) :
                i < j => Cardinality(Clustered(reply.items[i].name))
                           >= Cardinality(Clustered(reply.items[j].name))
           /\ \A a \in AllAuthors :
                (Clustered(a) # {} /\ \A i \in 1..Len(reply.items) : reply.items[i].name # a)
                  => \A i \in 1..Len(reply.items) :
                       Cardinality(Clustered(a))
                         <= Cardinality(Clustered(reply.items[i].name))

\* C20 as stated: a profile keeps at most 10 papers, and no paper of the
\* author's cluster that was left out is dated later than a paper kept.
C20_MostRecentKept ==
    (op.name = "find_faculty_research" /\ reply.kind = "ok")
        => \A i \in 1..Len(reply.items) :
             LET kept == {reply.items[i].recent_publications[k] :
                            k \in 1..Len(reply.items[i].recent_publications)}
             IN  /\ Len(reply.items[i].recent_publications) <= 10
                 /\ \A d \in Clustered(reply.items[i].name) \ kept, k \in kept :
                      repo[d].date <= repo[k].date

\* C21: the profiles of find_faculty_research are the clusters of the
\* affiliation-free names: every profile is named by such a name, no two
\* profiles share a name, a profile holds only papers written under its name
\* (however the affiliation is written), and while fewer than 20 profiles
\* are returned every name with a matching paper has its profile, so that
\* "Smith, John" and "Smith, J." stay apart.
C21_ClusteredByCleanName ==
    (op.name = "find_faculty_research" /\ reply.kind = "ok")
        => /\ \A i \in 1..Len(reply.items), j \in 1..Len(reply.items) :
                i # j => reply.items[i].name # reply.items[j].name
           /\ \A i \in 1..Len(reply.items) :
                /\ reply.items[i].name = NamePart(reply.items[i].name)
                /\ \A k \in 1..Len(reply.items[i].recent_publications) :
                     LET paper == repo[reply.items[i].recent_publications[k]]
                     IN  /\ op.area \in paper.text \cup paper.subjects
                         /\ \E j \in 1..Len(paper.authors) :
                              NamePart(paper.authors[j]) = reply.items[i].name
           /\ Len(reply.items) < 20
                => \A d \in 1..Len(repo), j \in {1} :
                     op.area \in repo[d].text \cup repo[d].subjects
                        => \E i \in 1..Len(reply.items) :
                             reply.items[i].name = NamePart(repo[d].authors[j])

\* One profile "Smith, John" holds papers signed in three different ways,
\* next to a profile "Smith, J.".
C21_Witness ==
    /\ op.name = "find_faculty_research"
    /\ reply.kind = "ok"
    /\ \E i \in 1..Len(reply.items), j \in 1..Len(reply.items) :
         /\ reply.items[i].name = SmithJohn
         /\ reply.items[j].name = SmithJ
         /\ Cardinality({repo[reply.items[i].recent_publications[k]].authors[1] :
                           k \in 1..Len(reply.items[i].recent_publications)}) >= 3

\* The sum of the first n yearly counts of the reply.
RECURSIVE TotalOf(_)
TotalOf(n) == IF n = 0 THEN 0 ELSE reply.trends_by_year[n].count + TotalOf(n - 1)

\* C22: analyze_research_trends harvests the years oldest first, one request
\* a year, and over their counts c_0..c_k reports their sum as total_papers,
\* the earliest year of the largest count as peak_year, and "increasing"
\* exactly when c_k > c_0, "decreasing" otherwise; counts 5, 8, 12 give
\* 25, "increasing" and the year of the 12.
C22_TrendStatistics ==
    (op.name = "analyze_research_trends" /\ reply.kind = "ok")
        => LET c == reply.trends_by_year
               k == Len(c)
           IN  /\ k = op.years + 1
               /\ Len(wire) = k
               /\ \A i \in 1..k :
                    /\ c[i].year = i - k
                    /\ c[i].count = Len(c[i].papers)
                    /\ c[i].count =
                         Cardinality({d \in 1..Len(repo) :
                                        /\ repo[d].date.year = c[i].year
                                        /\ op.keywords \cap repo[d].text # {}})
               /\ reply.total_papers = TotalOf(k)
               /\ \E i \in 1..k :
                    /\ reply.peak_year = c[i].year
                    /\ \A j \in 1..k : c[j].count <= c[i].count
                    /\ \A j \in 1..(i - 1) : c[j].count < c[i].count
               /\ reply.trend_direction \in {"increasing", "decreasing"}
               /\ reply.trend_direction = "increasing" <=> c[k].count > c[1].count
               /\ (k = 3 /\ c[1].count = 5 /\ c[2].count = 8 /\ c[3].count = 12)
                    => /\ reply.total_papers = 25
                       /\ reply.trend_direction = "increasing"
                       /\ reply.peak_year = c[3].year

\* The analysis of the counts 5, 8, 12.
C22_Witness ==
    /\ op.name = "analyze_research_trends"
    /\ reply.kind = "ok"
    /\ Len(reply.trends_by_year) = 3
    /\ reply.trends_by_year[1].count = 5
    /\ reply.trends_by_year[2].count = 8
    /\ reply.trends_by_year[3].count = 12
    /\ reply.total_papers = 25

\* An analysis of equal first and last counts with the largest count met
\* twice.
C22_WitnessTie ==
    /\ op.name = "analyze_research_trends"
    /\ reply.kind = "ok"
    /\ Len(reply.trends_by_year) = 3
    /\ reply.trends_by_year[1].count = 8
    /\ reply.trends_by_year[2].count = 5
    /\ reply.trends_by_year[3].count = 8
    /\ reply.peak_year = reply.trends_by_year[1].year
    /\ reply.trend_direction = "decreasing"

\* A step in which a connection test sends its request.
TestSends ==
    /\ op'.name \in {"test_connection", "atest_connection"}
    /\ op'.sent
    /\ op' # op

\* C28 as stated: a connection test, in either mode, sends its request
\* through the rate limiter: the request goes out no earlier than delay
\* after the value _last_request_time had, and leaves _last_request_time at
\* the time it went out; the next request of the instance after a connection
\* test, a request of _make_request or _make_async_request or of a further
\* connection test, goes out at least delay after that of the test.
C28_ConnectionTestsPaced ==
    [][/\ TestSends
          => /\ last_request_time' = sent_at'
             /\ sent_at' >= last_request_time + delay
       /\ (/\ op.name \in {"test_connection", "atest_connection"}
           /\ op.sent
           /\ (TestSends \/ sent' = sent + 1))
          => sent_at' - sent_at >= delay]_vars

\* C29 as stated: with delay > 0 and two coroutines in _make_async_request
\* on one instance, every request of the instance goes out at least delay
\* after the request before it, however the coroutines interleave.
C29_ConcurrentRequestsSpaced ==
    [][(/\ delay > 0
        /\ readings # <<>>
        /\ \E c \in Coroutines : tasks[c].pc # "request" /\ tasks'[c].pc = "request")
          => sent_at' - sent_at >= delay]_vars

(***************************************************************************)
(* Properties of both clients                                              *)
(***************************************************************************)

\* How the latest transport call of the operation ended.
TransportResult == wire[Len(wire)].result

\* C13 as stated: when the transport raises NetworkError, RateLimitError or
\* ClientError inside a public operation, the operation raises an error of
\* that same kind.
C13_TransportErrorSurfaces ==
    (op.name # "none" /\ wire # <<>>
        /\ TransportResult \in {"NetworkError", "RateLimitError", "ClientError"})
        => (reply.kind = "error" /\ reply.error = TransportResult)

\* The response the operation received lacks the element it looks for
\* first: the term dropdown, the subject dropdown, the main table or its
\* caption.
StructuralMismatch ==
    /\ wire # <<>>
    /\ TransportResult = "response"
    /\ \/ op.name = "get_available_semesters" /\ ~repo.semesters.present
       \/ op.name = "get_subjects" /\ ~repo.subjects.present
       \/ op.name = "get_course_details" /\ (~repo.detail.table \/ repo.detail.caption.none)

\* C14 as stated: a structural mismatch on a received response makes the
\* operation raise ParseError, after the one request.
C14_ParseErrorSurfaces ==
    StructuralMismatch
        => /\ reply.kind = "error" /\ reply.error = "ParseError"
           /\ Len(wire) = 1 /\ wire[1].sent = 1

(***************************************************************************)
(* Properties of OscarClient                                               *)
(***************************************************************************)

\* A missing, empty or whitespace-only argument.
IsBlankArg(a) == a.none \/ \A i \in 1..Len(a.chars) : a.chars[i] = " "

BlankCall ==
    \/ op.name = "get_subjects" /\ IsBlankArg(op.term)
    \/ /\ op.name \in {"get_courses_by_subject", "search_courses"}
       /\ IsBlankArg(op.term) \/ IsBlankArg(op.subject)
    \/ op.name = "get_course_details" /\ (IsBlankArg(op.term) \/ IsBlankArg(op.crn))

\* C10: get_subjects, get_courses_by_subject, search_courses and
\* get_course_details, called with a required argument that is missing, empty
\* or whitespace only, raise ValidationError, send no request and leave the
\* pacing clock as it was.
C10_BlankArgumentRejected ==
    BlankCall => /\ reply.kind = "error" /\ reply.error = "ValidationError"
                 /\ wire = <<>>
                 /\ last_request_time = before

\* search_courses with a whitespace-only term on an open client that has
\* already sent a request at a later clock reading.
C10_Witness ==
    /\ op.name = "search_courses"
    /\ op.term = Str(<<" ">>)
    /\ ~IsBlankArg(op.subject)
    /\ session["sync"] = "Session"
    /\ reply.error = "ValidationError"
    /\ wire = <<>>
    /\ before > 0
    /\ last_request_time = before

\* The values a form submits under a field name, in the order of the form.
RECURSIVE ValuesOf(_, _)
ValuesOf(form, n) ==
    IF form = <<>> THEN <<>>
    ELSE (IF Head(form).name = n THEN <<Head(form).value>> ELSE <<>>)
             \o ValuesOf(Tail(form), n)

\* C11: get_courses_by_subject, once its arguments are accepted, issues the
\* term-selection POST first; it issues a second call exactly when the first
\* returned a response, and that call is the course-listing POST, which
\* submits the subject twice: the placeholder 'dummy', then the subject.
C11_TwoPostsInOrder ==
    (op.name = "get_courses_by_subject" /\ ~BlankCall)
        => /\ Len(wire) \in {1, 2}
           /\ wire[1].target = "term_submit"
           /\ ValuesOf(wire[1].form, "p_term") = <<op.term>>
           /\ Len(wire) = 2 <=> wire[1].result = "response"
           /\ Len(wire) = 2 =>
                /\ wire[2].target = "course_search"
                /\ ValuesOf(wire[2].form, "term_in") = <<op.term>>
                /\ ValuesOf(wire[2].form, "sel_subj") = <<Lit("dummy"), op.subject>>

\* Both POSTs went out and were answered.
C11_Witness ==
    /\ op.name = "get_courses_by_subject"
    /\ Len(wire) = 2
    /\ wire[1].sent = 1 /\ wire[2].sent = 1
    /\ wire[2].result = "response"
    /\ reply.kind = "ok"

\* The first POST was refused and nothing followed it.
C11_WitnessFirstFails ==
    /\ op.name = "get_courses_by_subject"
    /\ Len(wire) = 1
    /\ wire[1].sent = 1
    /\ wire[1].result = "NetworkError"

(***************************************************************************)
(* Properties of the course listing                                        *)
(***************************************************************************)

CourseNumbers(courses) == [i \in 1..Len(courses) |-> courses[i].course_number]

\* The listing of C16: the courses numbered 1301, 1331 and 1332, searched
\* with course_num = "130" and no title.
ListingOf130 ==
    /\ op.name = "search_courses"
    /\ op.course_num = Str(<<"1", "3", "0">>)
    /\ op.title.none
    /\ reply.kind = "ok"
    /\ CourseNumbers(ParseListing(repo.listing))
         = << <<"1", "3", "0", "1">>, <<"1", "3", "3", "1">>, <<"1", "3", "3", "2">> >>

\* C16 as stated: that search returns exactly the courses numbered 1301 and
\* 1331.
C16_Returns1301And1331 ==
    ListingOf130
        => CourseNumbers(reply.items) = << <<"1", "3", "0", "1">>, <<"1", "3", "3", "1">> >>

\* C16, amended: search_courses with a course_num and no title returns, in
\* the order of the listing, exactly the courses whose course_number
\* contains the course_num stripped of surrounding whitespace; over the
\* numbers 1301, 1331 and 1332, "130" returns the course 1301 alone.
C16_SubstringOfNumber ==
    /\ (op.name = "search_courses" /\ reply.kind = "ok" /\ op.title.none
          /\ ~op.course_num.none /\ op.course_num.chars # <<>>)
         => reply.items =
              SelectSeq(ParseListing(repo.listing),
                        LAMBDA c : \E i \in 0..Len(c.course_number) :
                                     \E j \in i..Len(c.course_number) :
                                       SubSeq(c.course_number, i + 1, j)
                                         = Strip(op.course_num.chars))
    /\ ListingOf130 => CourseNumbers(reply.items) = << <<"1", "3", "0", "1">> >>

C16_Witness ==
    /\ ListingOf130
    /\ Len(wire) = 2
    /\ CourseNumbers(reply.items) = << <<"1", "3", "0", "1">> >>

\* A table of the listing page that yields a course: it has a caption, the
\* caption splits on " - " into at least 4 parts, and the second part is a
\* course code.
Qualifies(table) ==
    /\ ~table.caption.none
    /\ LET parts == Split(Strip(table.caption.chars))
       IN  Len(parts) >= 4 /\ CourseMatch(Strip(parts[2])).matches

\* C17: get_courses_by_subject, once both responses are received, returns
\* (and never raises) one CourseInfo per qualifying table, in document
\* order, built from the parts of its caption: title, course code (subject
\* and number), crn, section; the other tables contribute nothing.
C17_OneCoursePerCaption ==
    (op.name = "get_courses_by_subject" /\ Len(wire) = 2 /\ wire[2].result = "response")
        => /\ reply.kind = "ok"
           /\ LET good == SelectSeq(repo.listing, Qualifies)
              IN  /\ Len(reply.items) = Len(good)
                  /\ \A i \in 1..Len(good) :
                       LET parts == Split(Strip(good[i].caption.chars))
                           code == Strip(parts[2])
                           course == reply.items[i]
                       IN  /\ course.title = Strip(parts[1])
                           /\ course.crn = Strip(parts[3])
                           /\ course.section = Strip(parts[4])
                           /\ Span(code, Upper) = course.subject
                           /\ code = course.subject \o course.course_number
                                \/ code = course.subject \o <<" ">> \o course.course_number

\* A caption of three parts, the caption "a - CS 1301 - 7 - A" and a caption
\* with a lower-case course code: the one course CS 1301 is returned.
C17_Witness ==
    /\ op.name = "get_courses_by_subject"
    /\ reply.kind = "ok"
    /\ Len(repo.listing) = 3
    /\ ~Qualifies(repo.listing[1]) /\ Qualifies(repo.listing[2]) /\ ~Qualifies(repo.listing[3])
    /\ ~repo.listing[1].caption.none /\ Len(Split(repo.listing[1].caption.chars)) = 3
    /\ ~repo.listing[3].caption.none /\ Len(Split(repo.listing[3].caption.chars)) = 4
    /\ reply.items = <<CourseInfo(<<"7">>, <<"a">>, <<"C", "S">>, <<"1", "3", "0", "1">>, <<"A">>)>>

(***************************************************************************)
(* Properties of the course details                                        *)
(***************************************************************************)

\* A row whose three cells after the header are numbers.
Complete(row) ==
    /\ Len(row.cells) >= 3
    /\ \A i \in 1..3 : row.cells[i].numeric

\* C18 as stated: the RegistrationInfo of a course is all zeros, or all six
\* fields are the cells of a Seats row and of a Waitlist row; and it is all
\* zeros when the table is missing or one of the cells is not a number.
C18_NeverPartiallyFilled ==
    (op.name = "get_course_details" /\ reply.kind = "ok")
        => LET info == reply.items[1].registration
               rows == repo.detail.registration.rows
           IN  /\ \/ info = RegistrationInfo(0, 0, 0, 0, 0, 0)
                  \/ \E s \in 1..Len(rows), w \in 1..Len(rows) :
                       /\ rows[s].words = {"Seats"} /\ Complete(rows[s])
                       /\ "Waitlist" \in rows[w].words /\ Complete(rows[w])
                       /\ info = RegistrationInfo(rows[s].cells[1].value,
                                                  rows[s].cells[2].value,
                                                  rows[s].cells[3].value,
                                                  rows[w].cells[1].value,
                                                  rows[w].cells[2].value,
                                                  rows[w].cells[3].value)
               /\ (\/ ~repo.detail.registration.present
                   \/ \E r \in 1..Len(rows) : \E i \in 1..Len(rows[r].cells) :
                        ~rows[r].cells[i].numeric)
                    => info = RegistrationInfo(0, 0, 0, 0, 0, 0)

\* The seats fields and the waitlist fields of a RegistrationInfo.
SeatsOf(info) == <<info.seats_capacity, info.seats_actual, info.seats_remaining>>
WaitlistOf(info) ==
    <<info.waitlist_capacity, info.waitlist_actual, info.waitlist_remaining>>

\* The field is the f-th number of a row of the table with the header cell
\* the test accepts.
ReadFrom(rows, f, value, Accepts(_)) ==
    \E k \in 1..Len(rows) :
        /\ Accepts(rows[k].words)
        /\ Len(rows[k].cells) >= 3
        /\ rows[k].cells[f].numeric
        /\ rows[k].cells[f].value = value

\* C30 as stated: in the RegistrationInfo of get_course_details a seats
\* field that is set is a number of the Seats row and a waitlist field that
\* is set is a number of the Waitlist row, also when that row is labelled
\* "Waitlist Seats"; and a waitlist row of three numbers always fills the
\* waitlist fields.
C30_RowsKeptApart ==
    (op.name = "get_course_details" /\ reply.kind = "ok")
        => LET info == reply.items[1].registration
               rows == repo.detail.registration.rows
           IN  /\ \A f \in 1..3 :
                    /\ SeatsOf(info)[f] # 0
                         => ReadFrom(rows, f, SeatsOf(info)[f],
                                     LAMBDA words : words = {"Seats"})
                    /\ WaitlistOf(info)[f] # 0
                         => ReadFrom(rows, f, WaitlistOf(info)[f],
                                     LAMBDA words : "Waitlist" \in words)
               /\ \A w \in 1..Len(rows) :
                    ("Waitlist" \in rows[w].words /\ Complete(rows[w]))
                       => WaitlistOf(info) = [f \in 1..3 |-> rows[w].cells[f].value]

(***************************************************************************)
(* Properties of the dropdowns                                             *)
(***************************************************************************)

\* The text carries the view-only marker, in some letter case.
HasMarker(text) ==
    \E v \in {"V", "v"}, o \in {"O", "o"} : Contains(text, ViewOnlyMarker(v, o))

\* C23 as stated: over the options ("", "None"), ("202502", "Spring 2025"),
\* ("202402", "Spring 2024 (View only)") get_available_semesters returns
\* the two semesters 202502 "Spring 2025" and 202402 "Spring 2024", the
\* second one view-only; no option with an empty value is returned, and a
\* semester whose option carries the marker in any letter case is view-only
\* and named without the marker.
C23_MarkerStripped ==
    (op.name = "get_available_semesters" /\ reply.kind = "ok")
        => /\ repo.semesters.options = FixtureTerms
                => reply.items = << Semester(<<"202502">>, <<"Spring 2025">>, FALSE),
                                    Semester(<<"202402">>, <<"Spring 2024">>, TRUE) >>
           /\ \A i \in 1..Len(reply.items) :
                /\ reply.items[i].code # <<>>
                /\ ~HasMarker(reply.items[i].name)
           /\ \A k \in 1..Len(repo.semesters.options) :
                LET option == repo.semesters.options[k]
                IN  (option.value # <<>> /\ HasMarker(option.text))
                       => \E i \in 1..Len(reply.items) :
                            /\ reply.items[i].code = option.value
                            /\ reply.items[i].view_only

\* The options of the subject dropdown whose value is no placeholder.
NoPlaceholders(options) ==
    SelectSeq(options, LAMBDA option : option.value \notin {<<"dummy">>, <<"%">>, <<>>})

\* C24 as stated: get_subjects returns one Subject per option of the subject
\* dropdown whose value is not "dummy", "%" or empty, in document order,
\* and no other.
C24_PlaceholdersDropped ==
    (op.name = "get_subjects" /\ reply.kind = "ok")
        => reply.items =
             [i \in 1..Len(NoPlaceholders(repo.subjects.options)) |->
                Subject(NoPlaceholders(repo.subjects.options)[i].value,
                        NoPlaceholders(repo.subjects.options)[i].text)]

====
